---------------------------- MODULE Spec2Model ----------------------------
(***************************************************************************)
(* A model of the VRChat webcam tracker: the ParameterSmoother and the     *)
(* VRChatOSCSender of osc_sender.py, the GUI tracker of main.py, the CLI   *)
(* tracker of cli_tracker.py, the FaceTracker and the HandTracker of       *)
(* trackers.py.                                                            *)
(*                                                                         *)
(* Python floats are modelled as exact rationals <<n, d>> in lowest terms  *)
(* (d > 0): the rounding of IEEE arithmetic is not modelled.  A Python     *)
(* dict is modelled as a sequence of <<key, value>> pairs with distinct    *)
(* keys, in insertion order.                                               *)
(***************************************************************************)
EXTENDS Integers, Sequences, FiniteSets, TLC

VARIABLES
    \* ---- ParameterSmoother (osc_sender.py:241-288)
    smoothing_factor,   \* self.smoothing_factor
    previous_values,    \* self.previous_values, a dict as a function key -> value
    sm_call,            \* the last smoother call, what it returned, and the keys
                        \* of the call that were in sm_seen when it was made
    sm_before,          \* previous_values as the last call found it
    sm_seen,            \* keys smoothed before the last reset and not since
    sm_calls,           \* number of smoother calls made so far
    \* ---- VRChatOSCSender (osc_sender.py:17-207)
    now,                \* the clock time.time() reads, in ticks of 1/120 s
    last_send_time,     \* self.last_send_time
    snd_call,           \* the last sender call: its arguments, the clock reading at
                        \* its start, the messages it put on the wire, whether it
                        \* sent its whole batch, whether the transport raised, and
                        \* the same of the call before it (.prev)
    snd_emit,           \* start time of the last rate-gated call that sent its
                        \* whole batch (NoTime if none yet)
    \* ---- the tracker programs (main.py, cli_tracker.py)
    program,            \* which program runs: "gui" (main.py), "cli" (cli_tracker.py)
    cams,               \* the cv2.VideoCapture objects created so far, in order
    \* ---- WebcamTracker and TrackerGUI (main.py)
    camera,             \* self.camera: 0 for None, else an index into cams
    is_running,         \* self.is_running
    tracking_thread,    \* self.tracking_thread: 0 for None, else an index into wpc
    wpc,                \* where each _tracking_loop thread ever started stands
    wcam,               \* per thread: the camera its start_tracking acquired
    gpc,                \* where the GUI thread stands
    gcam,               \* the camera the current start_tracking call created
    is_tracking,        \* TrackerGUI.is_tracking
    start_ret,          \* what the last WebcamTracker.start_tracking returned
    \* ---- CLIWebcamTracker and main() of cli_tracker.py
    cap,                \* self.cap: 0 for None, else an index into cams
    running,            \* self.running
    cpc,                \* where the main thread stands
    ctx,                \* who called stop_tracking: "loop" (finally of
                        \* _tracking_loop) or "main" (finally of main)
    exc,                \* the exception that is propagating, if any
    signals,            \* SIGINTs delivered so far
    cli_log,            \* diagnostics printed, and whether the loop was entered
    \* ---- FaceTracker and HandTracker (trackers.py)
    prev_mouth_open,      \* FaceTracker.prev_mouth_open
    prev_eye_blink_left,  \* FaceTracker.prev_eye_blink_left
    prev_eye_blink_right, \* FaceTracker.prev_eye_blink_right
    prev_left_arm,        \* HandTracker.prev_left_arm
    prev_right_arm,       \* HandTracker.prev_right_arm
    ex_call,              \* the last extractor call: what the detectors found in
                          \* its frame, and the map it returned
    ex_frames,            \* number of frames handed to the extractors so far
    \* ---- the settings of config.py and the GUI handlers that write them
    VRCHAT_OSC_IP,        \* config.VRCHAT_OSC_IP
    VRCHAT_OSC_PORT,      \* config.VRCHAT_OSC_PORT
    gui_call,             \* the last settings handler of TrackerGUI: what it
                          \* found in config, and what it did
    \* ---- one iteration of a tracking loop
    hand_previous_values, \* WebcamTracker.hand_smoother.previous_values
    frame_call,           \* the last frame processed by a tracking loop: what
                          \* the extractors returned and what came of it
    session               \* the tracking session of the WebcamTracker: the
                          \* number of start_tracking calls that succeeded

smVars == <<smoothing_factor, previous_values, sm_call, sm_before, sm_seen, sm_calls>>

sndVars == <<now, last_send_time, snd_call, snd_emit>>

guiVars == <<camera, is_running, tracking_thread, wpc, wcam, gpc, gcam, is_tracking, start_ret>>

cliVars == <<cap, running, cpc, ctx, exc, signals, cli_log>>

exVars == <<prev_mouth_open, prev_eye_blink_left, prev_eye_blink_right,
            prev_left_arm, prev_right_arm, ex_call, ex_frames>>

cfgVars == <<VRCHAT_OSC_IP, VRCHAT_OSC_PORT, gui_call>>

loopVars == <<hand_previous_values, frame_call, session>>

vars == <<smVars, sndVars, program, cams, guiVars, cliVars, exVars, cfgVars, loopVars>>

-----------------------------------------------------------------------------
(* Bounds of the model.                                                    *)

\* smoother calls per behaviour
MaxSmoothCalls == 3

\* the clock stops advancing at MaxTime ticks
MaxTime == 5

\* most ticks the clock advances between two readings inside one call
MaxDrift == 1

\* start_tracking calls of the GUI per behaviour
MaxSessions == 2

\* SIGINTs delivered to the CLI per behaviour
MaxSignals == 1

\* frames handed to the extractors per behaviour
MaxFrames == 3

-----------------------------------------------------------------------------
(* Floats as exact rationals.                                              *)

Abs(n) == IF n < 0 THEN -n ELSE n

RECURSIVE GCD(_, _)
GCD(a, b) == IF b = 0 THEN a ELSE GCD(b, a % b)

Rat(n, d) ==
    LET g == GCD(Abs(n), Abs(d))
        s == IF d < 0 THEN -1 ELSE 1
    IN  <<(s * n) \div g, (s * d) \div g>>

Zero == Rat(0, 1)
One == Rat(1, 1)
Half == Rat(1, 2)

\* common factors are divided out before multiplying, which keeps the
\* intermediate integers small
RAdd(x, y) ==
    LET g == GCD(x[2], y[2])
    IN  Rat(x[1] * (y[2] \div g) + y[1] * (x[2] \div g), (x[2] \div g) * y[2])
RSub(x, y) ==
    LET g == GCD(x[2], y[2])
    IN  Rat(x[1] * (y[2] \div g) - y[1] * (x[2] \div g), (x[2] \div g) * y[2])
RMul(x, y) ==
    LET g == GCD(Abs(x[1]), y[2])
        h == GCD(Abs(y[1]), x[2])
    IN  Rat((x[1] \div g) * (y[1] \div h), (x[2] \div h) * (y[2] \div g))
RLe(x, y) ==
    LET g == GCD(x[2], y[2])
    IN  x[1] * (y[2] \div g) <= y[1] * (x[2] \div g)
RLt(x, y) ==
    LET g == GCD(x[2], y[2])
    IN  x[1] * (y[2] \div g) < y[1] * (x[2] \div g)

InUnit(x) == RLe(Zero, x) /\ RLe(x, One)

-----------------------------------------------------------------------------
(* Python dicts as sequences of <<key, value>> pairs.                      *)

DictKeys(d) == {d[i][1] : i \in 1..Len(d)}

DictGet(d, k) == LET i == CHOOSE j \in 1..Len(d) : d[j][1] = k IN d[i][2]

\* d[k] = v: an existing key keeps its position, a new key goes last
DictSet(d, k, v) ==
    IF k \in DictKeys(d)
    THEN [i \in 1..Len(d) |-> IF d[i][1] = k THEN <<k, v>> ELSE d[i]]
    ELSE Append(d, <<k, v>>)

\* the dicts over the keys K with values in V, of at most two entries
SmallDicts(K, V) ==
    {<<>>}
    \cup {<<<<k, v>>>> : k \in K, v \in V}
    \cup {d \in (K \X V) \X (K \X V) : d[1][1] # d[2][1]}

-----------------------------------------------------------------------------
(* VRChatOSCSender.                                                        *)

\* self.send_interval = 1.0 / 60.0, in ticks of 1/120 s
send_interval == 2

NoTime == -1

\* if current_time - self.last_send_time < self.send_interval: return
GateClosedInclusive(t, last) == t - last <= send_interval
GateNeverClosed(t, last) == FALSE
GateClosedForward(t, last) == t >= last /\ t - last < send_interval
GateClosed(t, last) == t - last < send_interval

\* self.last_send_time = current_time
NoStamp(t, last) == last
Stamp(t, last) == t

\* an OSC address: the namespace prefix and what follows it
ParamAddress(name) == <<"/avatar/parameters/", name>>
TrackerAddress(slot, what) == <<"/tracking/trackers/", slot, what>>

\* for param_name, value in data.items(): send_message(address, value)
ParamBatch(data) == [i \in 1..Len(data) |-> <<ParamAddress(data[i][1]), data[i][2]>>]

\* {**face_data, **hand_data}
Concatenated(face, hand, i) == face \o hand
RECURSIVE Merge(_, _, _)
Merge(face, hand, i) ==
    IF i > Len(hand) THEN face
    ELSE Merge(DictSet(face, hand[i][1], hand[i][2]), hand, i + 1)

ZeroTriple == <<Zero, Zero, Zero>>
IdentityRotation == <<Zero, Zero, Zero, One>>

\* the position of tracker slot i: its landmark, or zeros
SlotPositionFromZero(landmark_list, i) ==
    IF i < Len(landmark_list) THEN landmark_list[i + 1][2] ELSE ZeroTriple
SlotPosition(landmark_list, i) ==
    IF i - 1 < Len(landmark_list) THEN landmark_list[i][2] ELSE ZeroTriple

\* the messages of trackers i..8, then the head tracker's
RECURSIVE TrackerMessages(_, _)
TrackerMessages(landmark_list, i) ==
    IF i > 8
    THEN << <<TrackerAddress("head", "position"), SlotPosition(landmark_list, 1)>>,
            <<TrackerAddress("head", "rotation"), IdentityRotation>> >>
    ELSE << <<TrackerAddress(i, "position"), SlotPosition(landmark_list, i)>>,
            <<TrackerAddress(i, "rotation"), IdentityRotation>> >>
         \o TrackerMessages(landmark_list, i + 1)

BodyBatch(body_data) == TrackerMessages(body_data, 1)

\* face_data.get(name, 0.0)
GetOrZero(d, k) == IF k \in DictKeys(d) THEN DictGet(d, k) ELSE Zero

\* body_data[f"Tracker{i}"] = (0.0, 0.0, 0.0) for i in range(8)
Placeholders == [i \in 1..8 |-> <<<<"Tracker", i - 1>>, ZeroTriple>>]

\* the body data send_tracking_data synthesizes when it is given none
Synthesized(face_data) ==
    (IF Len(face_data) > 0
     THEN << <<"Head", << RSub(GetOrZero(face_data, "HeadTurnLeft"), GetOrZero(face_data, "HeadTurnRight")),
                          RSub(GetOrZero(face_data, "HeadTiltUp"), GetOrZero(face_data, "HeadTiltDown")),
                          RSub(GetOrZero(face_data, "HeadTiltLeft"), GetOrZero(face_data, "HeadTiltRight")) >> >> >>
     ELSE <<>>) \o Placeholders

\* the transport raises on message number failAt of the call (0: never)
Raises(msgs, failAt) == failAt \in 1..Len(msgs)
OnWire(msgs, failAt) == IF Raises(msgs, failAt) THEN SubSeq(msgs, 1, failAt - 1) ELSE msgs

\* a rate-gated method that stamps last_send_time only when its batch is
\* not empty
StampsWhenNonEmpty(batch, t, last, failAt) ==
    IF GateClosed(t, last) \/ batch = <<>>
    THEN [msgs |-> <<>>, last |-> last, sent |-> FALSE, raised |-> FALSE]
    ELSE [msgs |-> OnWire(batch, failAt),
          last |-> IF Raises(batch, failAt) THEN last ELSE Stamp(t, last),
          sent |-> ~Raises(batch, failAt),
          raised |-> Raises(batch, failAt)]

\* a rate-gated method that sends `batch`, called at clock reading t with
\* last_send_time = last: what goes on the wire and the new last_send_time
GatedSend(batch, t, last, failAt) ==
    IF GateClosed(t, last)
    THEN [msgs |-> <<>>, last |-> last, sent |-> FALSE, raised |-> FALSE]
    ELSE [msgs |-> OnWire(batch, failAt),
          last |-> IF Raises(batch, failAt) THEN last ELSE Stamp(t, last),
          sent |-> ~Raises(batch, failAt),
          raised |-> Raises(batch, failAt)]

\* send_tracking_data: its own gate at reading t, the nested
\* send_body_tracking_data at reading t2, then self.last_send_time = current_time
StampedBeforeInner(face_data, body_data, t, t2, last, failAt) ==
    IF GateClosed(t, last)
    THEN [msgs |-> <<>>, last |-> last, sent |-> FALSE, raised |-> FALSE,
          mid |-> last, t2 |-> t]
    ELSE LET body == IF Len(body_data) = 0 THEN Synthesized(face_data) ELSE body_data
             inner == GatedSend(BodyBatch(body), t2, Stamp(t, last), failAt)
         IN  [msgs |-> inner.msgs, last |-> Stamp(t, inner.last),
              sent |-> inner.sent, raised |-> inner.raised,
              mid |-> inner.last, t2 |-> t2]
TrackingSend(face_data, body_data, t, t2, last, failAt) ==
    IF GateClosed(t, last)
    THEN [msgs |-> <<>>, last |-> last, sent |-> FALSE, raised |-> FALSE,
          mid |-> last, t2 |-> t]
    ELSE LET body == IF Len(body_data) = 0 THEN Synthesized(face_data) ELSE body_data
             inner == GatedSend(BodyBatch(body), t2, last, failAt)
         IN  [msgs |-> inner.msgs, last |-> Stamp(t, inner.last),
              sent |-> inner.sent, raised |-> inner.raised,
              mid |-> inner.last, t2 |-> t2]

FaceInputs ==
    { <<>>,
      << <<"MouthOpen", Half>> >>,
      << <<"HeadTurnLeft", One>>, <<"HeadTiltDown", Half>> >> }

HandInputs ==
    { <<>>,
      << <<"MouthOpen", One>>, <<"LeftArmRaise", Half>> >> }

Landmark(i) == <<<<"Landmark", i>>, <<Rat(i, 10), Half, Zero>>>>

\* no body data, one landmark, nine landmarks
BodyInputs == { <<>>, <<Landmark(1)>>, [i \in 1..9 |-> Landmark(i)] }

\* the <<face_data, hand_data>> of send_combined_data calls
CombinedInputs ==
    { <<<<>>, <<>>>>,
      << << <<"MouthOpen", Half>> >>, <<>> >>,
      << << <<"MouthOpen", Half>> >>, << <<"MouthOpen", One>>, <<"LeftArmRaise", Half>> >> >>,
      << << <<"HeadTurnLeft", One>>, <<"HeadTiltDown", Half>> >>, << <<"LeftArmRaise", One>> >> >> }

\* the <<face_data, body_data>> of send_tracking_data calls
TrackingInputs ==
    {<<a, <<>>>> : a \in FaceInputs} \cup {<<<<>>, <<Landmark(1)>>>>}

CustomInputs == {<<"TestParam", Rat(8, 10)>>, <<"MouthOpen", Half>>}

\* the message of a call on which the transport raises: none, the first, the second
FailChoices == 0..2

\* what the transport (a UDP socket) raises when it fails
TransportErrors == {"OSError", "RuntimeError"}

\* except (OSError, RuntimeError) as e: the handler of every send method
CaughtOSErrorOnly(e) == e = "OSError"
Caught(e) == e \in {"OSError", "RuntimeError"}

\* what a call returns: test_connection returns False from its except
\* clause and True from its else clause, the other methods return None
ReturnValue(method, raised, e) ==
    IF raised /\ ~Caught(e) THEN "raises"
    ELSE IF method # "test_connection" THEN "None"
    ELSE IF raised THEN "False" ELSE "True"

GatedMethods == {"send_hand_tracking_data", "send_combined_data",
                 "send_body_tracking_data", "send_tracking_data"}

MethodKind(method) ==
    CASE method \in GatedMethods -> "gated"
      [] method = "send_custom_parameter" -> "custom"
      [] OTHER -> "other"

\* VRChatOSCSender.__init__; the clock has long passed send_interval
InitSender ==
    /\ now = send_interval
    /\ last_send_time = 0
    /\ snd_call = [method |-> "init", sent |-> FALSE, t |-> NoTime]
    /\ snd_emit = NoTime

\* the record of a call and the sender state after it
Called(method, args, t, r, e) ==
    /\ last_send_time' = r.last
    /\ snd_call' = [method |-> method, args |-> args, t |-> t, msgs |-> r.msgs,
                    sent |-> r.sent, raised |-> r.raised,
                    error |-> IF r.raised THEN e ELSE "none",
                    escaped |-> r.raised /\ ~Caught(e),
                    ret |-> ReturnValue(method, r.raised, e),
                    last_before |-> last_send_time,
                    mid |-> IF "mid" \in DOMAIN r THEN r.mid ELSE r.last,
                    t2 |-> IF "t2" \in DOMAIN r THEN r.t2 ELSE t,
                    prev_emit |-> snd_emit,
                    prev |-> [kind |-> MethodKind(snd_call.method), sent |-> snd_call.sent,
                              t |-> snd_call.t,
                              empty_maps |->
                                  /\ snd_call.method \in {"send_hand_tracking_data",
                                                          "send_combined_data"}
                                  /\ snd_call.msgs = <<>>]]
    /\ snd_emit' = IF r.sent /\ method \in GatedMethods THEN t ELSE snd_emit

\* time passes between two calls
Tick ==
    /\ now < MaxTime
    /\ now' = now + 1
    /\ UNCHANGED <<last_send_time, snd_call, snd_emit>>

send_hand_tracking_data(hand_data, failAt, e) ==
    /\ Called("send_hand_tracking_data", <<hand_data>>, now,
              GatedSend(ParamBatch(hand_data), now, last_send_time, failAt), e)
    /\ UNCHANGED now

send_combined_data(face_data, hand_data, failAt, e) ==
    /\ Called("send_combined_data", <<face_data, hand_data>>, now,
              GatedSend(ParamBatch(Merge(face_data, hand_data, 1)), now, last_send_time, failAt), e)
    /\ UNCHANGED now

send_body_tracking_data(body_data, failAt, e) ==
    /\ Called("send_body_tracking_data", <<body_data>>, now,
              GatedSend(BodyBatch(body_data), now, last_send_time, failAt), e)
    /\ UNCHANGED now

send_tracking_data(face_data, body_data, drift, failAt, e) ==
    /\ now + drift \in 0..MaxTime
    /\ Called("send_tracking_data", <<face_data, body_data>>, now,
              TrackingSend(face_data, body_data, now, now + drift, last_send_time, failAt), e)
    /\ now' = now + drift

GatedCustomParameter(parameter_name, value, failAt, e) ==
    /\ Called("send_custom_parameter", <<parameter_name, value>>, now,
              GatedSend(<<<<ParamAddress(parameter_name), value>>>>, now, last_send_time, failAt), e)
    /\ UNCHANGED now

send_custom_parameter(parameter_name, value, failAt, e) ==
    /\ LET batch == <<<<ParamAddress(parameter_name), value>>>>
       IN  Called("send_custom_parameter", <<parameter_name, value>>, now,
                  [msgs |-> OnWire(batch, failAt), last |-> last_send_time,
                   sent |-> ~Raises(batch, failAt), raised |-> Raises(batch, failAt)], e)
    /\ UNCHANGED now

test_connection(failAt, e) ==
    /\ LET batch == <<<<ParamAddress("TestConnection"), One>>>>
       IN  Called("test_connection", <<>>, now,
                  [msgs |-> OnWire(batch, failAt), last |-> last_send_time,
                   sent |-> ~Raises(batch, failAt), raised |-> Raises(batch, failAt)], e)
    /\ UNCHANGED now

NextSender ==
    \/ Tick /\ UNCHANGED <<smVars, program, exVars, cfgVars, cams, guiVars, cliVars, loopVars>>
    \/ \E h \in HandInputs, f \in FailChoices, e \in TransportErrors :
          send_hand_tracking_data(h, f, e) /\ UNCHANGED <<smVars, program, exVars, cfgVars, cams, guiVars, cliVars, loopVars>>
    \/ \E c \in CombinedInputs, f \in FailChoices, e \in TransportErrors :
          send_combined_data(c[1], c[2], f, e) /\ UNCHANGED <<smVars, program, exVars, cfgVars, cams, guiVars, cliVars, loopVars>>
    \/ \E b \in BodyInputs, f \in FailChoices, e \in TransportErrors :
          send_body_tracking_data(b, f, e) /\ UNCHANGED <<smVars, program, exVars, cfgVars, cams, guiVars, cliVars, loopVars>>
    \/ \E c \in TrackingInputs, d \in 0..MaxDrift, f \in FailChoices, e \in TransportErrors :
          send_tracking_data(c[1], c[2], d, f, e) /\ UNCHANGED <<smVars, program, exVars, cfgVars, cams, guiVars, cliVars, loopVars>>
    \/ \E c \in CustomInputs, f \in FailChoices, e \in TransportErrors :
          send_custom_parameter(c[1], c[2], f, e) /\ UNCHANGED <<smVars, program, exVars, cfgVars, cams, guiVars, cliVars, loopVars>>
    \/ \E f \in FailChoices, e \in TransportErrors : test_connection(f, e) /\ UNCHANGED <<smVars, program, exVars, cfgVars, cams, guiVars, cliVars, loopVars>>

\* the clock is set back between two calls (time.time() follows the system
\* clock)
ClockBack ==
    /\ now > 0
    /\ now' = now - 1
    /\ UNCHANGED <<last_send_time, snd_call, snd_emit>>

\* the rate-gated methods under a clock that moves either way, between calls
\* and between the two readings of send_tracking_data
NextClock ==
    \/ Tick /\ UNCHANGED <<smVars, program, exVars, cfgVars, cams, guiVars, cliVars, loopVars>>
    \/ ClockBack /\ UNCHANGED <<smVars, program, exVars, cfgVars, cams, guiVars, cliVars, loopVars>>
    \/ \E h \in HandInputs, f \in {0, 1} :
          send_hand_tracking_data(h, f, "OSError") /\ UNCHANGED <<smVars, program, exVars, cfgVars, cams, guiVars, cliVars, loopVars>>
    \/ \E c \in CombinedInputs, f \in {0, 1} :
          send_combined_data(c[1], c[2], f, "OSError") /\ UNCHANGED <<smVars, program, exVars, cfgVars, cams, guiVars, cliVars, loopVars>>
    \/ \E b \in BodyInputs, f \in {0, 1} :
          send_body_tracking_data(b, f, "OSError") /\ UNCHANGED <<smVars, program, exVars, cfgVars, cams, guiVars, cliVars, loopVars>>
    \/ \E c \in TrackingInputs, d \in -MaxDrift..MaxDrift, f \in {0, 1} :
          send_tracking_data(c[1], c[2], d, f, "OSError") /\ UNCHANGED <<smVars, program, exVars, cfgVars, cams, guiVars, cliVars, loopVars>>

-----------------------------------------------------------------------------
(* ParameterSmoother.                                                      *)

\* the smoothing factors the repository constructs smoothers with
Alphas == {Rat(6, 10), Rat(7, 10), Rat(8, 10)}

\* raw parameter values, all in [0, 1]
RawValues == {Zero, Half, One}

SmootherKeys == {"MouthOpen", "default"}

NoValues == <<>>

\* smoothing_factor * previous + (1 - smoothing_factor) * value
SwappedBlend(alpha, prev, value) ==
    RAdd(RMul(RSub(One, alpha), prev), RMul(alpha, value))
UnweightedBlend(alpha, prev, value) ==
    RAdd(RMul(alpha, prev), value)
Blend(alpha, prev, value) ==
    RAdd(RMul(alpha, prev), RMul(RSub(One, alpha), value))

\* the value smooth() computes for one parameter
FromZeroValue(alpha, prev, k, value) ==
    Blend(alpha, IF k \in DOMAIN prev THEN prev[k] ELSE Zero, value)
SmoothedValue(alpha, prev, k, value) ==
    IF k \in DOMAIN prev THEN Blend(alpha, prev[k], value) ELSE value

\* self.previous_values[param_name] = smoothed_value
RecordAlone(prev, k, v) == [x \in {k} |-> v]
Record(prev, k, v) == [x \in DOMAIN prev \cup {k} |-> IF x = k THEN v ELSE prev[x]]

\* smooth_parameters: the loop over new_data.items(), from entry i on;
\* returns <<previous_values, smoothed_data>>
RECURSIVE CoupledLoop(_, _, _, _, _)
CoupledLoop(alpha, prev, data, i, out) ==
    IF i > Len(data) THEN <<prev, out>>
    ELSE LET k == data[i][1]
             s == SmoothedValue(alpha, prev, data[1][1], data[i][2])
         IN  CoupledLoop(alpha, Record(prev, k, s), data, i + 1, DictSet(out, k, s))

RECURSIVE SmoothLoop(_, _, _, _, _)
SmoothLoop(alpha, prev, data, i, out) ==
    IF i > Len(data) THEN <<prev, out>>
    ELSE LET k == data[i][1]
             s == SmoothedValue(alpha, prev, k, data[i][2])
         IN  SmoothLoop(alpha, Record(prev, k, s), data, i + 1, DictSet(out, k, s))

\* self.previous_values.clear()
KeepAll(prev) == prev
Cleared(prev) == NoValues

\* the smoother of a program that never calls it
IdleSmoother ==
    /\ smoothing_factor = Rat(8, 10)
    /\ previous_values = NoValues
    /\ sm_call = [op |-> "init"]
    /\ sm_before = NoValues
    /\ sm_seen = {}
    /\ sm_calls = 0

\* ParameterSmoother.__init__(smoothing_factor)
InitSmoother ==
    /\ smoothing_factor \in Alphas
    /\ previous_values = NoValues
    /\ sm_call = [op |-> "init"]
    /\ sm_before = NoValues
    /\ sm_seen = {}
    /\ sm_calls = 0

\* ParameterSmoother.smooth(value, param_name)
smooth(value, k) ==
    /\ sm_calls < MaxSmoothCalls
    /\ LET s == SmoothedValue(smoothing_factor, previous_values, k, value)
       IN  /\ previous_values' = Record(previous_values, k, s)
           /\ sm_call' = [op |-> "smooth", key |-> k, value |-> value, ret |-> s,
                          pending |-> sm_seen \cap {k}]
    /\ sm_before' = previous_values
    /\ sm_seen' = sm_seen \ {k}
    /\ sm_calls' = sm_calls + 1
    /\ UNCHANGED smoothing_factor

\* ParameterSmoother.smooth_parameters(new_data)
smooth_parameters(data) ==
    /\ sm_calls < MaxSmoothCalls
    /\ LET r == SmoothLoop(smoothing_factor, previous_values, data, 1, <<>>)
       IN  /\ previous_values' = r[1]
           /\ sm_call' = [op |-> "smooth_parameters", data |-> data, ret |-> r[2],
                          pending |-> sm_seen \cap DictKeys(data)]
    /\ sm_before' = previous_values
    /\ sm_seen' = sm_seen \ DictKeys(data)
    /\ sm_calls' = sm_calls + 1
    /\ UNCHANGED smoothing_factor

\* ParameterSmoother.reset()
reset ==
    /\ sm_calls < MaxSmoothCalls
    /\ previous_values' = Cleared(previous_values)
    /\ sm_call' = [op |-> "reset"]
    /\ sm_before' = previous_values
    /\ sm_seen' = sm_seen \cup DOMAIN previous_values
    /\ sm_calls' = sm_calls + 1
    /\ UNCHANGED smoothing_factor

NextSmoother ==
    \/ \E v \in RawValues, k \in SmootherKeys :
          smooth(v, k) /\ UNCHANGED <<sndVars, program, exVars, cfgVars, cams, guiVars, cliVars, loopVars>>
    \/ \E d \in SmallDicts(SmootherKeys, RawValues) :
          smooth_parameters(d) /\ UNCHANGED <<sndVars, program, exVars, cfgVars, cams, guiVars, cliVars, loopVars>>
    \/ reset /\ UNCHANGED <<sndVars, program, exVars, cfgVars, cams, guiVars, cliVars, loopVars>>

-----------------------------------------------------------------------------
(* The pipeline of one frame in WebcamTracker._tracking_loop: the face map *)
(* is smoothed by face_smoother, the hand map by hand_smoother, and both   *)
(* are handed to send_combined_data.  The hand map is empty here, so that  *)
(* hand_smoother has nothing to remember.                                  *)

\* the face maps of the frames
FrameFaces == {<< <<"MouthOpen", v>> >> : v \in RawValues}

\* self.hand_smoother.smooth_parameters({}) of ParameterSmoother(0.6)
SmoothedEmptyHand == SmoothLoop(Rat(6, 10), NoValues, <<>>, 1, <<>>)[2]

\* smoothed_face_data = self.face_smoother.smooth_parameters(face_data);
\* self.osc_sender.send_combined_data(smoothed_face_data, smoothed_hand_data)
EmitRaw(face_data, failAt, e) ==
    /\ smooth_parameters(face_data)
    /\ send_combined_data(face_data, SmoothedEmptyHand, failAt, e)

ProcessFrame(face_data, failAt, e) ==
    /\ smooth_parameters(face_data)
    /\ send_combined_data(sm_call'.ret, SmoothedEmptyHand, failAt, e)

NextPipeline ==
    \/ Tick /\ UNCHANGED <<smVars, program, exVars, cfgVars, cams, guiVars, cliVars, loopVars>>
    \/ \E face \in FrameFaces, f \in FailChoices, e \in TransportErrors :
          ProcessFrame(face, f, e) /\ UNCHANGED <<program, exVars, cfgVars, cams, guiVars, cliVars, loopVars>>

-----------------------------------------------------------------------------
(* The settings of config.py, as the handlers of TrackerGUI write them     *)
(* from the IP and port fields of the window.  The text of a field is a    *)
(* sequence of characters.                                                 *)

IsDigit(c) == c \in {"0", "1", "2", "3", "4", "5", "6", "7", "8", "9"}

DigitValue(c) ==
    CASE c = "0" -> 0 [] c = "1" -> 1 [] c = "2" -> 2 [] c = "3" -> 3 [] c = "4" -> 4
      [] c = "5" -> 5 [] c = "6" -> 6 [] c = "7" -> 7 [] c = "8" -> 8 [] c = "9" -> 9

\* int(text) ignores the blanks around the number
RECURSIVE Stripped(_)
Stripped(text) ==
    IF text = <<>> THEN text
    ELSE IF Head(text) = " " THEN Stripped(Tail(text))
    ELSE IF text[Len(text)] = " " THEN Stripped(SubSeq(text, 1, Len(text) - 1))
    ELSE text

\* the digits of a stripped text, after its sign if it has one
Unsigned(t) == IF t # <<>> /\ Head(t) \in {"+", "-"} THEN Tail(t) ELSE t

\* int(text) returns a number; otherwise it raises ValueError
IsNumeric(text) ==
    LET body == Unsigned(Stripped(text))
    IN  body # <<>> /\ \A i \in 1..Len(body) : IsDigit(body[i])

RECURSIVE DigitsValue(_, _, _)
DigitsValue(body, i, acc) ==
    IF i > Len(body) THEN acc ELSE DigitsValue(body, i + 1, 10 * acc + DigitValue(body[i]))

\* int(text), for a text that is numeric
IntOf(text) ==
    LET t == Stripped(text)
        n == DigitsValue(Unsigned(t), 1, 0)
    IN  IF Head(t) = "-" THEN -n ELSE n

\* what the user may have typed in the IP field and in the port field
IpTexts == {"127.0.0.1", "192.168.0.5"}
PortTexts == {<<"9", "0", "0", "0">>, <<" ", "9", "0", "0", "1">>, <<"a", "b", "c">>, <<>>}

\* the fields as the window first shows them: config.VRCHAT_OSC_IP and
\* str(config.VRCHAT_OSC_PORT)
ShownIp == "127.0.0.1"
ShownPort == <<"9", "0", "0", "0">>

\* config.py as imported
InitConfig ==
    /\ VRCHAT_OSC_IP = "127.0.0.1"
    /\ VRCHAT_OSC_PORT = 9000
    /\ gui_call = [handler |-> "init"]

\* the try block of toggle_tracking and of test_connection:
\*     config.VRCHAT_OSC_IP = self.ip_var.get()
\*     config.VRCHAT_OSC_PORT = int(self.port_var.get())
\*     ... = VRChatOSCSender()
\* and the message box of its `except ValueError`
UpdateSettings(handler, ip, port, reported) ==
    /\ VRCHAT_OSC_IP' = ip
    /\ VRCHAT_OSC_PORT' = IF IsNumeric(port) THEN IntOf(port) ELSE VRCHAT_OSC_PORT
    /\ gui_call' = [handler |-> handler,
                    numeric |-> IsNumeric(port),
                    reported |-> IF IsNumeric(port) THEN reported ELSE "port_error",
                    created |-> IsNumeric(port),
                    ip_before |-> VRCHAT_OSC_IP,
                    port_before |-> VRCHAT_OSC_PORT]

-----------------------------------------------------------------------------
(* The frame source: cv2.VideoCapture objects.                             *)

\* cv2.VideoCapture(index); `opened` is whether the device could be opened
NewCam(opened) == [acquired |-> opened, open |-> opened, releases |-> 0]

\* capture.release()
Released(c) == [c EXCEPT !.open = FALSE, !.releases = @ + 1]

\* capture.isOpened()
NotChecked(c) == TRUE
isOpened(c) == c.open

\* the device of an open capture goes away (unplugged, taken by another program)
CameraLost ==
    /\ \E i \in 1..Len(cams) :
          /\ cams[i].open
          /\ cams' = [cams EXCEPT ![i].open = FALSE]
    /\ UNCHANGED <<program, exVars, cfgVars, guiVars, cliVars, loopVars>>

\* no tracker program: the sender or the smoother is used on its own
NoProgram ==
    /\ program = "none"
    /\ cams = <<>>
    /\ camera = 0 /\ is_running = FALSE /\ tracking_thread = 0
    /\ wpc = <<>> /\ wcam = <<>>
    /\ gpc = [at |-> "idle", closing |-> FALSE]
    /\ gcam = 0 /\ is_tracking = FALSE /\ start_ret = "none"
    /\ cap = 0 /\ running = FALSE /\ cpc = "start" /\ ctx = "main"
    /\ exc = "none" /\ signals = 0
    /\ cli_log = [start |-> "none", reported |-> FALSE, loop_entered |-> FALSE]
    /\ InitConfig

-----------------------------------------------------------------------------
(* WebcamTracker and TrackerGUI (main.py).  The GUI thread runs the        *)
(* tkinter callbacks; every successful start_tracking starts one more      *)
(* _tracking_loop thread.                                                  *)

\* TrackerGUI.__init__, WebcamTracker.__init__
InitGui ==
    /\ program = "gui"
    /\ cams = <<>>
    /\ camera = 0 /\ is_running = FALSE /\ tracking_thread = 0
    /\ wpc = <<>> /\ wcam = <<>>
    /\ gpc = [at |-> "idle", closing |-> FALSE]
    /\ gcam = 0 /\ is_tracking = FALSE /\ start_ret = "none"
    /\ cap = 0 /\ running = FALSE /\ cpc = "start" /\ ctx = "main"
    /\ exc = "none" /\ signals = 0
    /\ cli_log = [start |-> "none", reported |-> FALSE, loop_entered |-> FALSE]
    /\ InitConfig

Alive(w) == wpc[w] \notin {"done", "crashed"}

\* a thread inside a call that can take arbitrarily long
Blocked(w) == wpc[w] \in {"read", "process", "join"}

\* thread.join(timeout=2.0) returns: the thread ended, or the timeout passed
JoinReturns(t) == ~Alive(t) \/ Blocked(t)

\* toggle_tracking, not tracking, with a port field that is not a number:
\* the message box, return
GuiToggleRejected(ip, port) ==
    /\ program = "gui"
    /\ gpc.at = "idle" /\ ~is_tracking
    /\ ~IsNumeric(port)
    /\ UpdateSettings("toggle_tracking", ip, port, "none")
    /\ UNCHANGED <<cams, guiVars>>

\* TrackerGUI.test_connection; `ok` is what the test_connection of the new
\* sender returns
GuiTestConnection(ip, port, ok) ==
    /\ program = "gui"
    /\ gpc.at = "idle"
    /\ UpdateSettings("test_connection", ip, port, IF ok THEN "info" ELSE "warning")
    /\ UNCHANGED <<cams, guiVars>>

\* toggle_tracking, not tracking: the settings are taken from the fields,
\* initialize_camera creates the capture
GuiOpenCamera(opened, ip, port) ==
    /\ program = "gui"
    /\ gpc.at = "idle" /\ ~is_tracking
    /\ IsNumeric(port)
    /\ UpdateSettings("toggle_tracking", ip, port, "none")
    /\ Len(cams) < MaxSessions
    /\ cams' = Append(cams, NewCam(opened))
    /\ camera' = Len(cams) + 1
    /\ gcam' = Len(cams) + 1
    /\ gpc' = [gpc EXCEPT !.at = "init_check"]
    /\ UNCHANGED <<is_running, tracking_thread, wpc, wcam, is_tracking, start_ret>>

\* toggle_tracking, not tracking: the settings are taken from the fields,
\* cv2.VideoCapture raises
GuiOpenRaises(ip, port) ==
    /\ program = "gui"
    /\ gpc.at = "idle" /\ ~is_tracking
    /\ IsNumeric(port)
    /\ UpdateSettings("toggle_tracking", ip, port, "none")
    /\ gcam' = 0
    /\ start_ret' = "False"
    /\ UNCHANGED <<cams, camera, is_running, tracking_thread, wpc, wcam, gpc, is_tracking>>

\* the outcome of initialize_camera once the capture exists
CameraReady == camera # 0 /\ isOpened(cams[camera])

\* initialize_camera: self.camera.set(...), isOpened(); start_tracking returns
\* False when it fails (self.camera.set raises if a thread set it to None)
GuiInitCheck ==
    /\ program = "gui"
    /\ gpc.at = "init_check"
    /\ IF CameraReady
       THEN /\ gpc' = [gpc EXCEPT !.at = "starting"]
            /\ UNCHANGED start_ret
       ELSE /\ gpc' = [gpc EXCEPT !.at = "idle"]
            /\ start_ret' = "False"
    /\ UNCHANGED <<cams, camera, is_running, tracking_thread, wpc, wcam, gcam, is_tracking>>

\* start_tracking: is_running = True, the thread starts; toggle_tracking
\* sets is_tracking
GuiStartThread ==
    /\ program = "gui"
    /\ gpc.at = "starting"
    /\ is_running' = TRUE
    /\ wpc' = Append(wpc, "while")
    /\ wcam' = Append(wcam, gcam)
    /\ tracking_thread' = Len(wpc) + 1
    /\ start_ret' = "True"
    /\ is_tracking' = TRUE
    /\ gpc' = [gpc EXCEPT !.at = "idle"]
    /\ UNCHANGED <<cams, camera, gcam>>

\* toggle_tracking, tracking: stop_tracking sets is_running = False
GuiStop ==
    /\ program = "gui"
    /\ gpc.at = "idle" /\ is_tracking
    /\ is_running' = FALSE
    /\ gpc' = [gpc EXCEPT !.at = "join"]
    /\ UNCHANGED <<cams, camera, tracking_thread, wpc, wcam, gcam, is_tracking, start_ret>>

\* run(): the window is closed; finally: if self.is_tracking: stop_tracking()
GuiClose ==
    /\ program = "gui"
    /\ gpc.at = "idle"
    /\ IF is_tracking
       THEN /\ is_running' = FALSE
            /\ gpc' = [at |-> "join", closing |-> TRUE]
       ELSE /\ gpc' = [at |-> "closed", closing |-> TRUE]
            /\ UNCHANGED is_running
    /\ UNCHANGED <<cams, camera, tracking_thread, wpc, wcam, gcam, is_tracking, start_ret>>

\* stop_tracking on the GUI thread: self.tracking_thread.join(timeout=2.0)
GuiJoin ==
    /\ program = "gui"
    /\ gpc.at = "join"
    /\ tracking_thread # 0 => JoinReturns(tracking_thread)
    /\ gpc' = [gpc EXCEPT !.at = "release"]
    /\ UNCHANGED <<cams, camera, is_running, tracking_thread, wpc, wcam, gcam, is_tracking, start_ret>>

\* where the GUI thread is after stop_tracking returned
AfterStop == IF gpc.closing THEN "closed" ELSE "idle"

\* stop_tracking on the GUI thread: if self.camera: self.camera.release()
GuiRelease ==
    /\ program = "gui"
    /\ gpc.at = "release"
    /\ IF camera # 0
       THEN /\ cams' = [cams EXCEPT ![camera] = Released(@)]
            /\ gpc' = [gpc EXCEPT !.at = "setnone"]
            /\ UNCHANGED is_tracking
       ELSE /\ gpc' = [gpc EXCEPT !.at = AfterStop]
            /\ is_tracking' = (gpc.closing /\ is_tracking)
            /\ UNCHANGED cams
    /\ UNCHANGED <<camera, is_running, tracking_thread, wpc, wcam, gcam, start_ret>>

\* stop_tracking on the GUI thread: self.camera = None; toggle_tracking
\* then clears is_tracking
GuiSetNone ==
    /\ program = "gui"
    /\ gpc.at = "setnone"
    /\ camera' = 0
    /\ gpc' = [gpc EXCEPT !.at = AfterStop]
    /\ is_tracking' = (gpc.closing /\ is_tracking)
    /\ UNCHANGED <<cams, is_running, tracking_thread, wpc, wcam, gcam, start_ret>>

\* a _tracking_loop thread runs while the process does (it is a daemon thread)
Runs(w) == program = "gui" /\ gpc.at # "closed" /\ w \in 1..Len(wpc)

\* _tracking_loop: while self.is_running
LoopWhile(w) ==
    /\ Runs(w) /\ wpc[w] = "while"
    /\ wpc' = [wpc EXCEPT ![w] = IF is_running THEN "camcheck" ELSE "stop"]
    /\ UNCHANGED <<cams, camera, is_running, tracking_thread, wcam, gpc, gcam, is_tracking, start_ret>>

\* _tracking_loop: if self.camera is None: break
LoopCamCheck(w) ==
    /\ Runs(w) /\ wpc[w] = "camcheck"
    /\ wpc' = [wpc EXCEPT ![w] = IF camera = 0 THEN "stop" ELSE "read"]
    /\ UNCHANGED <<cams, camera, is_running, tracking_thread, wcam, gpc, gcam, is_tracking, start_ret>>

\* where a failed frame read sends the loop of main.py: print, break
AfterFailedRead == "stop"

\* _tracking_loop: ret, frame = self.camera.read(); `ret` is what an open
\* device answers.  self.camera may be None by now: the AttributeError is
\* caught by the loop's except, which breaks
LoopRead(w, ret) ==
    /\ Runs(w) /\ wpc[w] = "read"
    /\ wpc' = [wpc EXCEPT ![w] =
                  IF camera = 0 THEN "stop"
                  ELSE IF cams[camera].open /\ ret THEN "process"
                  ELSE "read_failed"]
    /\ UNCHANGED <<cams, camera, is_running, tracking_thread, wcam, gpc, gcam, is_tracking, start_ret>>

\* _tracking_loop: if not ret: print(...); break
LoopReadFailed(w) ==
    /\ Runs(w) /\ wpc[w] = "read_failed"
    /\ wpc' = [wpc EXCEPT ![w] = AfterFailedRead]
    /\ UNCHANGED <<cams, camera, is_running, tracking_thread, wcam, gpc, gcam, is_tracking, start_ret>>

\* _tracking_loop: the frame is processed, sent and shown; then the next
\* iteration ("next"), or a break on the q/ESC key ("quit") or on an
\* exception ("error")
LoopProcess(w, outcome) ==
    /\ Runs(w) /\ wpc[w] = "process"
    /\ wpc' = [wpc EXCEPT ![w] = IF outcome = "next" THEN "while" ELSE "stop"]
    /\ UNCHANGED <<cams, camera, is_running, tracking_thread, wcam, gpc, gcam, is_tracking, start_ret>>

\* _tracking_loop: self.stop_tracking(), which sets is_running = False
LoopStop(w) ==
    /\ Runs(w) /\ wpc[w] = "stop"
    /\ is_running' = FALSE
    /\ wpc' = [wpc EXCEPT ![w] = "join"]
    /\ UNCHANGED <<cams, camera, tracking_thread, wcam, gpc, gcam, is_tracking, start_ret>>

\* what thread w gets from self.tracking_thread.join(timeout=2.0):
\* Thread.join raises RuntimeError when asked to join the current thread,
\* and nothing catches it
JoinOutcome(w) == IF tracking_thread = w THEN "crashed" ELSE "release"

\* stop_tracking on a loop thread: if self.tracking_thread: join
LoopJoin(w) ==
    /\ Runs(w) /\ wpc[w] = "join"
    /\ (tracking_thread # 0 /\ tracking_thread # w) => JoinReturns(tracking_thread)
    /\ wpc' = [wpc EXCEPT ![w] = JoinOutcome(w)]
    /\ UNCHANGED <<cams, camera, is_running, tracking_thread, wcam, gpc, gcam, is_tracking, start_ret>>

\* stop_tracking on a loop thread: if self.camera: self.camera.release()
LoopRelease(w) ==
    /\ Runs(w) /\ wpc[w] = "release"
    /\ IF camera # 0
       THEN /\ cams' = [cams EXCEPT ![camera] = Released(@)]
            /\ wpc' = [wpc EXCEPT ![w] = "setnone"]
       ELSE /\ wpc' = [wpc EXCEPT ![w] = "done"]
            /\ UNCHANGED cams
    /\ UNCHANGED <<camera, is_running, tracking_thread, wcam, gpc, gcam, is_tracking, start_ret>>

\* stop_tracking on a loop thread: self.camera = None
LoopSetNone(w) ==
    /\ Runs(w) /\ wpc[w] = "setnone"
    /\ camera' = 0
    /\ wpc' = [wpc EXCEPT ![w] = "done"]
    /\ UNCHANGED <<cams, is_running, tracking_thread, wcam, gpc, gcam, is_tracking, start_ret>>

Threads == 1..MaxSessions

\* one step of the _tracking_loop thread w
WorkerStep(w) ==
    \/ LoopWhile(w)
    \/ LoopCamCheck(w)
    \/ \E r \in BOOLEAN : LoopRead(w, r)
    \/ LoopReadFailed(w)
    \/ \E o \in {"next", "quit", "error"} : LoopProcess(w, o)
    \/ LoopStop(w)
    \/ LoopJoin(w)
    \/ LoopRelease(w)
    \/ LoopSetNone(w)

-----------------------------------------------------------------------------
(* CLIWebcamTracker and main() (cli_tracker.py): one thread.  SIGINT runs  *)
(* signal_handler, whose sys.exit(0) raises SystemExit at whatever point   *)
(* the thread has reached.                                                 *)

\* CLIWebcamTracker.__init__, main() up to tracker.start_tracking(...)
InitCli ==
    /\ program = "cli"
    /\ cams = <<>>
    /\ camera = 0 /\ is_running = FALSE /\ tracking_thread = 0
    /\ wpc = <<>> /\ wcam = <<>>
    /\ gpc = [at |-> "idle", closing |-> FALSE]
    /\ gcam = 0 /\ is_tracking = FALSE /\ start_ret = "none"
    /\ cap = 0 /\ running = FALSE /\ cpc = "start" /\ ctx = "main"
    /\ exc = "none" /\ signals = 0
    /\ cli_log = [start |-> "none", reported |-> FALSE, loop_entered |-> FALSE]
    /\ InitConfig

\* positions inside the try block of _tracking_loop
InLoop == {"while", "chk", "read", "read_failed", "process"}

\* positions inside stop_tracking
InStop == {"s_chk", "s_false", "s_rel", "s_destroy"}

\* start_tracking: self.cap = cv2.VideoCapture(self.camera_index)
CliOpenCamera(opened) ==
    /\ program = "cli" /\ cpc = "start"
    /\ cams' = Append(cams, NewCam(opened))
    /\ cap' = Len(cams) + 1
    /\ cpc' = "isopen"
    /\ UNCHANGED <<running, ctx, exc, signals, cli_log>>

\* start_tracking: if not self.cap.isOpened(): print error, return (main's
\* finally then calls stop_tracking)
CliIsOpened ==
    /\ program = "cli" /\ cpc = "isopen"
    /\ IF isOpened(cams[cap])
       THEN /\ cpc' = "setrun"
            /\ cli_log' = [cli_log EXCEPT !.start = "ok"]
       ELSE /\ cpc' = "s_chk"
            /\ cli_log' = [cli_log EXCEPT !.start = "failed", !.reported = TRUE]
    /\ UNCHANGED <<cams, cap, running, ctx, exc, signals>>

\* start_tracking: self.running = True; self._tracking_loop(show_video)
CliSetRunning ==
    /\ program = "cli" /\ cpc = "setrun"
    /\ running' = TRUE
    /\ cpc' = "while"
    /\ cli_log' = [cli_log EXCEPT !.loop_entered = TRUE]
    /\ UNCHANGED <<cams, cap, ctx, exc, signals>>

\* _tracking_loop: while self.running; when the loop ends the finally
\* clause calls stop_tracking
CliWhile ==
    /\ program = "cli" /\ cpc = "while"
    /\ IF running
       THEN cpc' = "chk" /\ UNCHANGED ctx
       ELSE cpc' = "s_chk" /\ ctx' = "loop"
    /\ UNCHANGED <<cams, cap, running, exc, signals, cli_log>>

\* _tracking_loop: if self.cap is None or not self.cap.isOpened(): break
CliCamCheck ==
    /\ program = "cli" /\ cpc = "chk"
    /\ IF cap = 0 \/ ~isOpened(cams[cap])
       THEN cpc' = "s_chk" /\ ctx' = "loop"
       ELSE cpc' = "read" /\ UNCHANGED ctx
    /\ UNCHANGED <<cams, cap, running, exc, signals, cli_log>>

\* _tracking_loop: ret, frame = self.cap.read()
CliRead(ret) ==
    /\ program = "cli" /\ cpc = "read"
    /\ cpc' = IF cams[cap].open /\ ret THEN "process" ELSE "read_failed"
    /\ UNCHANGED <<cams, cap, running, ctx, exc, signals, cli_log>>

\* _tracking_loop: if not ret: print(...); continue
CliReadFailed ==
    /\ program = "cli" /\ cpc = "read_failed"
    /\ cpc' = "while"
    /\ UNCHANGED <<cams, cap, running, ctx, exc, signals, cli_log>>

\* _tracking_loop: _process_frame, _display_frame, waitKey, sleep; then the
\* next iteration ("next"), a break on ESC ("esc"), or an exception that
\* the except KeyboardInterrupt clause does not catch ("error")
CliProcess(outcome) ==
    /\ program = "cli" /\ cpc = "process"
    /\ IF outcome = "next"
       THEN cpc' = "while" /\ UNCHANGED <<ctx, exc>>
       ELSE /\ cpc' = "s_chk" /\ ctx' = "loop"
            /\ exc' = IF outcome = "error" THEN "Exception" ELSE exc
    /\ UNCHANGED <<cams, cap, running, signals, cli_log>>

\* where the thread is when stop_tracking returns: the call in the finally
\* of _tracking_loop is followed by the one in the finally of main
CliReturn == IF ctx = "loop" THEN "s_chk" ELSE "exited"

\* stop_tracking: if not self.running: return
CliStopCheck ==
    /\ program = "cli" /\ cpc = "s_chk"
    /\ IF running
       THEN cpc' = "s_false" /\ UNCHANGED ctx
       ELSE cpc' = CliReturn /\ ctx' = "main"
    /\ UNCHANGED <<cams, cap, running, exc, signals, cli_log>>

\* stop_tracking: self.running = False
CliStopFlag ==
    /\ program = "cli" /\ cpc = "s_false"
    /\ running' = FALSE
    /\ cpc' = "s_rel"
    /\ UNCHANGED <<cams, cap, ctx, exc, signals, cli_log>>

\* stop_tracking: if self.cap: self.cap.release()
CliStopRelease ==
    /\ program = "cli" /\ cpc = "s_rel"
    /\ cams' = IF cap # 0 THEN [cams EXCEPT ![cap] = Released(@)] ELSE cams
    /\ cpc' = "s_destroy"
    /\ UNCHANGED <<cap, running, ctx, exc, signals, cli_log>>

\* stop_tracking: cv2.destroyAllWindows(); return
CliStopDone ==
    /\ program = "cli" /\ cpc = "s_destroy"
    /\ cpc' = CliReturn /\ ctx' = "main"
    /\ UNCHANGED <<cams, cap, running, exc, signals, cli_log>>

\* where SystemExit takes the thread: into the finally of _tracking_loop
\* from inside its try block, into the finally of main from the rest of
\* start_tracking or from the stop_tracking call of the loop's finally, and
\* out of the program from the stop_tracking call of main's finally
Unwind == IF cpc \in InLoop THEN [pc |-> "s_chk", ctx |-> "loop"]
          ELSE IF cpc \in InStop /\ ctx = "main" THEN [pc |-> "exited", ctx |-> "main"]
          ELSE [pc |-> "s_chk", ctx |-> "main"]

\* SIGINT: signal_handler calls sys.exit(0)
CliSignal ==
    /\ program = "cli" /\ cpc # "exited"
    /\ signals < MaxSignals
    /\ signals' = signals + 1
    /\ exc' = "SystemExit"
    /\ cpc' = Unwind.pc
    /\ ctx' = Unwind.ctx
    /\ UNCHANGED <<cams, cap, running, cli_log>>

\* the two programs, with the settings fields of the window left as they are
\* first shown
NextTrackers ==
    \/ \E o \in BOOLEAN :
          GuiOpenCamera(o, ShownIp, ShownPort) /\ UNCHANGED <<smVars, sndVars, program, exVars, cliVars, loopVars>>
    \/ GuiOpenRaises(ShownIp, ShownPort) /\ UNCHANGED <<smVars, sndVars, program, exVars, cliVars, loopVars>>
    \/ GuiInitCheck /\ UNCHANGED <<smVars, sndVars, program, exVars, cfgVars, cliVars, loopVars>>
    \/ GuiStartThread /\ UNCHANGED <<smVars, sndVars, program, exVars, cfgVars, cliVars, loopVars>>
    \/ GuiStop /\ UNCHANGED <<smVars, sndVars, program, exVars, cfgVars, cliVars, loopVars>>
    \/ GuiClose /\ UNCHANGED <<smVars, sndVars, program, exVars, cfgVars, cliVars, loopVars>>
    \/ GuiJoin /\ UNCHANGED <<smVars, sndVars, program, exVars, cfgVars, cliVars, loopVars>>
    \/ GuiRelease /\ UNCHANGED <<smVars, sndVars, program, exVars, cfgVars, cliVars, loopVars>>
    \/ GuiSetNone /\ UNCHANGED <<smVars, sndVars, program, exVars, cfgVars, cliVars, loopVars>>
    \/ \E w \in Threads : LoopWhile(w) /\ UNCHANGED <<smVars, sndVars, program, exVars, cfgVars, cliVars, loopVars>>
    \/ \E w \in Threads : LoopCamCheck(w) /\ UNCHANGED <<smVars, sndVars, program, exVars, cfgVars, cliVars, loopVars>>
    \/ \E w \in Threads, r \in BOOLEAN : LoopRead(w, r) /\ UNCHANGED <<smVars, sndVars, program, exVars, cfgVars, cliVars, loopVars>>
    \/ \E w \in Threads : LoopReadFailed(w) /\ UNCHANGED <<smVars, sndVars, program, exVars, cfgVars, cliVars, loopVars>>
    \/ \E w \in Threads, o \in {"next", "quit", "error"} :
          LoopProcess(w, o) /\ UNCHANGED <<smVars, sndVars, program, exVars, cfgVars, cliVars, loopVars>>
    \/ \E w \in Threads : LoopStop(w) /\ UNCHANGED <<smVars, sndVars, program, exVars, cfgVars, cliVars, loopVars>>
    \/ \E w \in Threads : LoopJoin(w) /\ UNCHANGED <<smVars, sndVars, program, exVars, cfgVars, cliVars, loopVars>>
    \/ \E w \in Threads : LoopRelease(w) /\ UNCHANGED <<smVars, sndVars, program, exVars, cfgVars, cliVars, loopVars>>
    \/ \E w \in Threads : LoopSetNone(w) /\ UNCHANGED <<smVars, sndVars, program, exVars, cfgVars, cliVars, loopVars>>
    \/ \E o \in BOOLEAN : CliOpenCamera(o) /\ UNCHANGED <<smVars, sndVars, program, exVars, cfgVars, guiVars, loopVars>>
    \/ CliIsOpened /\ UNCHANGED <<smVars, sndVars, program, exVars, cfgVars, guiVars, loopVars>>
    \/ CliSetRunning /\ UNCHANGED <<smVars, sndVars, program, exVars, cfgVars, guiVars, loopVars>>
    \/ CliWhile /\ UNCHANGED <<smVars, sndVars, program, exVars, cfgVars, guiVars, loopVars>>
    \/ CliCamCheck /\ UNCHANGED <<smVars, sndVars, program, exVars, cfgVars, guiVars, loopVars>>
    \/ \E r \in BOOLEAN : CliRead(r) /\ UNCHANGED <<smVars, sndVars, program, exVars, cfgVars, guiVars, loopVars>>
    \/ CliReadFailed /\ UNCHANGED <<smVars, sndVars, program, exVars, cfgVars, guiVars, loopVars>>
    \/ \E o \in {"next", "esc", "error"} : CliProcess(o) /\ UNCHANGED <<smVars, sndVars, program, exVars, cfgVars, guiVars, loopVars>>
    \/ CliStopCheck /\ UNCHANGED <<smVars, sndVars, program, exVars, cfgVars, guiVars, loopVars>>
    \/ CliStopFlag /\ UNCHANGED <<smVars, sndVars, program, exVars, cfgVars, guiVars, loopVars>>
    \/ CliStopRelease /\ UNCHANGED <<smVars, sndVars, program, exVars, cfgVars, guiVars, loopVars>>
    \/ CliStopDone /\ UNCHANGED <<smVars, sndVars, program, exVars, cfgVars, guiVars, loopVars>>
    \/ CliSignal /\ UNCHANGED <<smVars, sndVars, program, exVars, cfgVars, guiVars, loopVars>>
    \/ CameraLost /\ UNCHANGED <<smVars, sndVars>>

\* the GUI program, with the user editing the settings fields between the
\* clicks on its buttons
NextGui ==
    \/ \E ip \in IpTexts, port \in PortTexts :
          GuiToggleRejected(ip, port) /\ UNCHANGED <<smVars, sndVars, program, exVars, cliVars, loopVars>>
    \/ \E ip \in IpTexts, port \in PortTexts, ok \in BOOLEAN :
          GuiTestConnection(ip, port, ok) /\ UNCHANGED <<smVars, sndVars, program, exVars, cliVars, loopVars>>
    \/ \E o \in BOOLEAN, ip \in IpTexts, port \in PortTexts :
          GuiOpenCamera(o, ip, port) /\ UNCHANGED <<smVars, sndVars, program, exVars, cliVars, loopVars>>
    \/ \E ip \in IpTexts, port \in PortTexts :
          GuiOpenRaises(ip, port) /\ UNCHANGED <<smVars, sndVars, program, exVars, cliVars, loopVars>>
    \/ GuiInitCheck /\ UNCHANGED <<smVars, sndVars, program, exVars, cfgVars, cliVars, loopVars>>
    \/ GuiStartThread /\ UNCHANGED <<smVars, sndVars, program, exVars, cfgVars, cliVars, loopVars>>
    \/ GuiStop /\ UNCHANGED <<smVars, sndVars, program, exVars, cfgVars, cliVars, loopVars>>
    \/ GuiClose /\ UNCHANGED <<smVars, sndVars, program, exVars, cfgVars, cliVars, loopVars>>
    \/ GuiJoin /\ UNCHANGED <<smVars, sndVars, program, exVars, cfgVars, cliVars, loopVars>>
    \/ GuiRelease /\ UNCHANGED <<smVars, sndVars, program, exVars, cfgVars, cliVars, loopVars>>
    \/ GuiSetNone /\ UNCHANGED <<smVars, sndVars, program, exVars, cfgVars, cliVars, loopVars>>
    \/ \E w \in Threads : LoopWhile(w) /\ UNCHANGED <<smVars, sndVars, program, exVars, cfgVars, cliVars, loopVars>>
    \/ \E w \in Threads : LoopCamCheck(w) /\ UNCHANGED <<smVars, sndVars, program, exVars, cfgVars, cliVars, loopVars>>
    \/ \E w \in Threads, r \in BOOLEAN : LoopRead(w, r) /\ UNCHANGED <<smVars, sndVars, program, exVars, cfgVars, cliVars, loopVars>>
    \/ \E w \in Threads : LoopReadFailed(w) /\ UNCHANGED <<smVars, sndVars, program, exVars, cfgVars, cliVars, loopVars>>
    \/ \E w \in Threads, o \in {"next", "quit", "error"} :
          LoopProcess(w, o) /\ UNCHANGED <<smVars, sndVars, program, exVars, cfgVars, cliVars, loopVars>>
    \/ \E w \in Threads : LoopStop(w) /\ UNCHANGED <<smVars, sndVars, program, exVars, cfgVars, cliVars, loopVars>>
    \/ \E w \in Threads : LoopJoin(w) /\ UNCHANGED <<smVars, sndVars, program, exVars, cfgVars, cliVars, loopVars>>
    \/ \E w \in Threads : LoopRelease(w) /\ UNCHANGED <<smVars, sndVars, program, exVars, cfgVars, cliVars, loopVars>>
    \/ \E w \in Threads : LoopSetNone(w) /\ UNCHANGED <<smVars, sndVars, program, exVars, cfgVars, cliVars, loopVars>>
    \/ CameraLost /\ UNCHANGED <<smVars, sndVars>>

-----------------------------------------------------------------------------
(* FaceTracker and HandTracker (trackers.py).  A frame is modelled by what *)
(* the OpenCV detectors find in it: the face rectangles, the contours of   *)
(* the mouth region, the eyes, the smiles, the density of the foreground   *)
(* mask in each half of the image.                                         *)

RNeg(x) == <<-x[1], x[2]>>
RAbs(x) == <<Abs(x[1]), x[2]>>
RMin(x, y) == IF RLe(x, y) THEN x ELSE y

\* the shape of a frame: config.CAMERA_WIDTH x config.CAMERA_HEIGHT
ImageWidth == 640
ImageHeight == 480

\* FaceTracker.HEAD_MOVEMENT_THRESHOLD = 0.1
NoThreshold == Zero
HEAD_MOVEMENT_THRESHOLD == Rat(1, 10)

\* FaceTracker.FACE_ASPECT_RATIO_THRESHOLD = 1.2
SquareAspect == One
FACE_ASPECT_RATIO_THRESHOLD == Rat(12, 10)

\* HandTracker.MOVEMENT_THRESHOLD = 0.01
MOVEMENT_THRESHOLD == Rat(1, 100)

\* expression_data as detect_face_expression first builds it
ExpressionDefaults ==
    << <<"MouthOpen", Zero>>, <<"LeftEyeBlink", Zero>>, <<"RightEyeBlink", Zero>>,
       <<"LeftEyebrowRaise", Zero>>, <<"RightEyebrowRaise", Zero>>, <<"MouthSmile", Zero>>,
       <<"HeadTiltLeft", Zero>>, <<"HeadTiltRight", Zero>>, <<"HeadTiltUp", Zero>>,
       <<"HeadTiltDown", Zero>>, <<"HeadTurnLeft", Zero>>, <<"HeadTurnRight", Zero>> >>

\* head_pose as _detect_head_pose first builds it
HeadPoseDefaults ==
    << <<"HeadTiltLeft", Zero>>, <<"HeadTiltRight", Zero>>, <<"HeadTiltUp", Zero>>,
       <<"HeadTiltDown", Zero>>, <<"HeadTurnLeft", Zero>>, <<"HeadTurnRight", Zero>> >>

\* tracking_data as detect_hand_pose first builds it
HandDefaults ==
    << <<"LeftArmRaise", Zero>>, <<"RightArmRaise", Zero>>,
       <<"LeftHandOpen", Zero>>, <<"RightHandOpen", Zero>>,
       <<"LeftHandFist", Zero>>, <<"RightHandFist", Zero>>,
       <<"LeftHandPoint", Zero>>, <<"RightHandPoint", Zero>> >>

\* max(faces, key=lambda f: f[2] * f[3]): the first face of the largest area
RECURSIVE LargestFrom(_, _, _)
LargestFrom(faces, i, best) ==
    IF i > Len(faces) THEN best
    ELSE LargestFrom(faces, i + 1,
                     IF faces[i][3] * faces[i][4] > best[3] * best[4] THEN faces[i] ELSE best)

LargestFace(faces) == LargestFrom(faces, 2, faces[1])

\* cv2.contourArea(max(contours, key=cv2.contourArea))
RECURSIVE LargestArea(_, _)
LargestArea(contours, i) ==
    IF i > Len(contours) THEN 0
    ELSE LET rest == LargestArea(contours, i + 1)
         IN  IF contours[i] >= rest THEN contours[i] ELSE rest

\* mouth_open_ratio = min(1.0, area / 100.0)
UnclampedRatio(area) == Rat(area, 100)
MouthRatio(area) == RMin(One, Rat(area, 100))

\* _detect_mouth_movement: <<the value returned, prev_mouth_open after it>>
MouthMovement(contours, prev) ==
    IF Len(contours) > 0
    THEN LET smoothed == RAdd(RMul(Rat(7, 10), prev),
                              RMul(Rat(3, 10), MouthRatio(LargestArea(contours, 1))))
         IN  <<smoothed, smoothed>>
    ELSE <<Zero, prev>>

\* _detect_eye_blink: <<the value returned, prev_eye_blink_left after it>>
EyeBlinkUnblended(eyes, prev) ==
    LET blink_value == IF eyes = 0 THEN Rat(8, 10) ELSE Zero
    IN  <<blink_value, blink_value>>
EyeBlink(eyes, prev) ==
    LET blink_value == IF eyes = 0 THEN Rat(8, 10) ELSE Zero
        smoothed == RAdd(RMul(Rat(8, 10), prev), RMul(Rat(2, 10), blink_value))
    IN  <<smoothed, smoothed>>

\* _detect_smile
Smile(smiles) == IF smiles > 0 THEN Rat(8, 10) ELSE Zero

\* (face_center - image_center) / (image_size // 2), along one axis: the
\* face starts at `start` and is `size` long
CenterOffset(start, size, image_size) ==
    Rat((start + size \div 2) - image_size \div 2, image_size \div 2)

\* _detect_head_pose(face_rect, image_shape)
HeadPose(face_rect, image_width, image_height) ==
    LET x == face_rect[1]
        y == face_rect[2]
        w == face_rect[3]
        h == face_rect[4]
        horizontal_offset == CenterOffset(x, w, image_width)
        vertical_offset == CenterOffset(y, h, image_height)
        turn == RMin(One, RMul(RAbs(horizontal_offset), Rat(2, 1)))
        tilt == RMin(One, RMul(RAbs(vertical_offset), Rat(2, 1)))
        p1 == IF RLt(HEAD_MOVEMENT_THRESHOLD, horizontal_offset)
              THEN DictSet(HeadPoseDefaults, "HeadTurnLeft", turn)
              ELSE IF RLt(horizontal_offset, RNeg(HEAD_MOVEMENT_THRESHOLD))
              THEN DictSet(HeadPoseDefaults, "HeadTurnRight", turn)
              ELSE HeadPoseDefaults
        p2 == IF RLt(HEAD_MOVEMENT_THRESHOLD, vertical_offset)
              THEN DictSet(p1, "HeadTiltDown", tilt)
              ELSE IF RLt(vertical_offset, RNeg(HEAD_MOVEMENT_THRESHOLD))
              THEN DictSet(p1, "HeadTiltUp", tilt)
              ELSE p1
        face_aspect_ratio == IF h > 0 THEN Rat(w, h) ELSE One
        lean == RMin(One, RMul(RSub(face_aspect_ratio, One), Rat(2, 1)))
    IN  IF RLt(FACE_ASPECT_RATIO_THRESHOLD, face_aspect_ratio)
        THEN IF RLt(Zero, horizontal_offset)
             THEN DictSet(p2, "HeadTiltRight", lean)
             ELSE DictSet(p2, "HeadTiltLeft", lean)
        ELSE p2

\* what detect_face_expression returns when len(faces) == 0, whatever the
\* tracker's fields hold
LastMouthKept(mouth, eye) == DictSet(ExpressionDefaults, "MouthOpen", mouth)
NoFaceResult(mouth, eye) == ExpressionDefaults

\* a detect_face_expression whose fields decay towards 0 on a frame
\* without a face
DecaysWithoutFace(frame, mouth, eye) ==
    IF Len(frame.faces) = 0
    THEN [ret |-> NoFaceResult(mouth, eye),
          mouth |-> RMul(Rat(7, 10), mouth), eye |-> RMul(Rat(8, 10), eye)]
    ELSE LET face == LargestFace(frame.faces)
             m == MouthMovement(frame.contours, mouth)
             b == EyeBlink(frame.eyes, eye)
             d1 == DictSet(ExpressionDefaults, "MouthOpen", m[1])
             d2 == DictSet(DictSet(d1, "LeftEyeBlink", b[1]), "RightEyeBlink", b[1])
             d3 == DictSet(d2, "MouthSmile", Smile(frame.smiles))
             d4 == Merge(d3, HeadPose(face, ImageWidth, ImageHeight), 1)
             d5 == DictSet(DictSet(d4, "LeftEyebrowRaise", Zero), "RightEyebrowRaise", Zero)
         IN  [ret |-> d5, mouth |-> m[2], eye |-> b[2]]

\* detect_face_expression: the map returned and the tracker's fields after it
FaceExpression(frame, mouth, eye) ==
    IF Len(frame.faces) = 0
    THEN [ret |-> NoFaceResult(mouth, eye), mouth |-> mouth, eye |-> eye]
    ELSE LET face == LargestFace(frame.faces)
             m == MouthMovement(frame.contours, mouth)
             b == EyeBlink(frame.eyes, eye)
             d1 == DictSet(ExpressionDefaults, "MouthOpen", m[1])
             d2 == DictSet(DictSet(d1, "LeftEyeBlink", b[1]), "RightEyeBlink", b[1])
             d3 == DictSet(d2, "MouthSmile", Smile(frame.smiles))
             d4 == Merge(d3, HeadPose(face, ImageWidth, ImageHeight), 1)
             d5 == DictSet(DictSet(d4, "LeftEyebrowRaise", Zero), "RightEyebrowRaise", Zero)
         IN  [ret |-> d5, mouth |-> m[2], eye |-> b[2]]

\* left_arm_raise = min(1.0, left_movement * 10.0)
ArmRaise(movement) == RMin(One, RMul(movement, Rat(10, 1)))

\* detect_hand_pose: the map returned (prev_left_arm and prev_right_arm are
\* read and never assigned)
HandPose(frame, left_arm, right_arm) ==
    LET d1 == DictSet(HandDefaults, "LeftArmRaise",
                      RAdd(RMul(Rat(7, 10), left_arm), RMul(Rat(3, 10), ArmRaise(frame.left))))
        d2 == DictSet(d1, "RightArmRaise",
                      RAdd(RMul(Rat(7, 10), right_arm), RMul(Rat(3, 10), ArmRaise(frame.right))))
        d3 == DictSet(d2, "LeftHandOpen",
                      IF RLt(MOVEMENT_THRESHOLD, frame.left) THEN Half ELSE Zero)
    IN  DictSet(d3, "RightHandOpen",
                IF RLt(MOVEMENT_THRESHOLD, frame.right) THEN Half ELSE Zero)

\* face rectangles (x, y, w, h) in a 640x480 frame: in the centre, low on
\* the right, wide on the left
Centered == <<260, 180, 120, 120>>
LowRight == <<500, 380, 100, 100>>
WideLeft == <<100, 100, 150, 100>>

\* what face_cascade.detectMultiScale finds
FaceDetections == {<<Centered>>, <<LowRight>>, <<WideLeft>>, <<Centered, WideLeft>>}

\* the areas of the contours found in the mouth region
ContourAreas == {<<>>, <<0>>, <<50>>, <<50, 400>>}

\* the frames handed to detect_face_expression; the other detectors only
\* run on a frame with a face
FaceFrames ==
    {[faces |-> <<>>, contours |-> <<>>, eyes |-> 0, smiles |-> 0]}
    \cup {[faces |-> f, contours |-> c, eyes |-> e, smiles |-> s] :
             f \in FaceDetections, c \in ContourAreas, e \in {0, 2}, s \in {0, 1}}

\* np.sum(half > 0) / half.size: the share of moving pixels in a half
Movements == {Zero, Rat(1, 200), Rat(1, 20), One}

\* the frames handed to detect_hand_pose
HandFrames == {[left |-> l, right |-> r] : l \in Movements, r \in Movements}

\* FaceTracker.__init__, HandTracker.__init__
InitExtractors ==
    /\ prev_mouth_open = Zero
    /\ prev_eye_blink_left = Zero
    /\ prev_eye_blink_right = Zero
    /\ prev_left_arm = Zero
    /\ prev_right_arm = Zero
    /\ ex_call = [op |-> "init"]
    /\ ex_frames = 0

\* FaceTracker.detect_face_expression(image)
detect_face_expression(frame) ==
    /\ ex_frames < MaxFrames
    /\ \E r \in {FaceExpression(frame, prev_mouth_open, prev_eye_blink_left)} :
           /\ prev_mouth_open' = r.mouth
           /\ prev_eye_blink_left' = r.eye
           /\ ex_call' = [op |-> "detect_face_expression", frame |-> frame, ret |-> r.ret,
                          mouth_before |-> prev_mouth_open,
                          eye_before |-> prev_eye_blink_left,
                          after_gap |-> /\ ex_call.op = "detect_face_expression"
                                        /\ Len(ex_call.frame.faces) = 0]
    /\ ex_frames' = ex_frames + 1
    /\ UNCHANGED <<prev_eye_blink_right, prev_left_arm, prev_right_arm>>

\* HandTracker.detect_hand_pose(image)
detect_hand_pose(frame) ==
    /\ ex_frames < MaxFrames
    /\ ex_call' = [op |-> "detect_hand_pose", frame |-> frame,
                   ret |-> HandPose(frame, prev_left_arm, prev_right_arm),
                   left_before |-> prev_left_arm, right_before |-> prev_right_arm]
    /\ ex_frames' = ex_frames + 1
    /\ UNCHANGED <<prev_mouth_open, prev_eye_blink_left, prev_eye_blink_right,
                   prev_left_arm, prev_right_arm>>

NextExtractors ==
    \/ \E frame \in FaceFrames :
          detect_face_expression(frame) /\ UNCHANGED <<smVars, sndVars, program, cams, guiVars, cliVars, cfgVars, loopVars>>
    \/ \E frame \in HandFrames :
          detect_hand_pose(frame) /\ UNCHANGED <<smVars, sndVars, program, cams, guiVars, cliVars, cfgVars, loopVars>>

\* face rectangles inside the frame: at its borders, around its centre and
\* on both sides of the offsets where a turn or a tilt begins; as high as
\* wide, 1.2 times as wide as high, wider, and of height 0
HeadRects ==
    {r \in {0, 237, 238, 270, 302, 303, 500, 639}
           \X {0, 165, 166, 190, 214, 215, 479}
           \X {1, 100, 101, 120, 140} \X {0, 1, 100, 101} :
        r[1] + r[3] <= ImageWidth /\ r[2] + r[4] <= ImageHeight}

\* FaceTracker._detect_head_pose(face_rect, image.shape)
detect_head_pose(face_rect) ==
    /\ ex_call' = [op |-> "_detect_head_pose", face_rect |-> face_rect,
                   ret |-> HeadPose(face_rect, ImageWidth, ImageHeight)]
    /\ UNCHANGED <<prev_mouth_open, prev_eye_blink_left, prev_eye_blink_right,
                   prev_left_arm, prev_right_arm, ex_frames>>

NextHeadPose ==
    \E face_rect \in HeadRects :
        detect_head_pose(face_rect) /\ UNCHANGED <<smVars, sndVars, program, cams, guiVars, cliVars, cfgVars, loopVars>>

-----------------------------------------------------------------------------
(* One iteration of each tracking loop on a frame that was read: what      *)
(* WebcamTracker._tracking_loop does with it (main.py), and what           *)
(* CLIWebcamTracker._process_frame does with it (cli_tracker.py).          *)

\* ParameterSmoother(smoothing_factor=0.7), ParameterSmoother(smoothing_factor=0.6)
FaceSmoothing == Rat(7, 10)
HandSmoothing == Rat(6, 10)

\* WebcamTracker.__init__: the hand smoother; no frame processed yet
InitLoop ==
    /\ hand_previous_values = NoValues
    /\ frame_call = [program |-> "none"]
    /\ session = 1

\* the frames of a loop, by what the detectors find in them: an empty
\* scene, a face with a raised arm, a face low on the right with still arms
StillHands == [left |-> Zero, right |-> Zero]
LoopFrames ==
    {<<[faces |-> <<>>, contours |-> <<>>, eyes |-> 0, smiles |-> 0], StillHands>>,
     <<[faces |-> <<Centered>>, contours |-> <<50>>, eyes |-> 0, smiles |-> 1],
       [left |-> Rat(1, 20), right |-> One]>>,
     <<[faces |-> <<LowRight>>, contours |-> <<50, 400>>, eyes |-> 2, smiles |-> 0], StillHands>>}

\* the transport during a frame: it works, or it raises on the first message
LoopFailures == {<<0, "OSError">>, <<1, "OSError">>}

\* the face tracker and the hand tracker on one frame
Extracted(face_frame, hand_frame) ==
    [face |-> FaceExpression(face_frame, prev_mouth_open, prev_eye_blink_left),
     hand |-> HandPose(hand_frame, prev_left_arm, prev_right_arm)]

\* both extractors have run on the frame
ExtractorsRun(x, hand_frame) ==
    /\ ex_frames < MaxFrames
    /\ prev_mouth_open' = x.face.mouth
    /\ prev_eye_blink_left' = x.face.eye
    /\ ex_call' = [op |-> "detect_hand_pose", frame |-> hand_frame, ret |-> x.hand,
                   left_before |-> prev_left_arm, right_before |-> prev_right_arm]
    /\ ex_frames' = ex_frames + 1
    /\ UNCHANGED <<prev_eye_blink_right, prev_left_arm, prev_right_arm>>

\* the state of a smoother after a frame: smooth_parameters has run on it
\* before send_combined_data reads the clock, whether or not the rate gate
\* then drops the emission
AdvancedWhenSent(gated, state, advanced) == IF gated THEN state ELSE advanced
AfterFrame(gated, state, advanced) == advanced

\* the frames dropped by the rate gate since the last emission, and the
\* state of the hand smoother after the last emission
GatedRun == IF frame_call.program = "gui" THEN frame_call.gated_run_after ELSE 0
LastEmitted == IF frame_call.program = "gui" THEN frame_call.last_emitted_after ELSE NoValues

\* _tracking_loop of main.py, from detect_face_expression to
\* send_combined_data
GuiFrame(face_frame, hand_frame, failAt, e) ==
    \E x \in {Extracted(face_frame, hand_frame)} :
    \E h \in {SmoothLoop(HandSmoothing, hand_previous_values, x.hand, 1, <<>>)} :
        /\ program = "gui"
        /\ ExtractorsRun(x, hand_frame)
        /\ smooth_parameters(x.face.ret)
        /\ hand_previous_values' = AfterFrame(GateClosed(now, last_send_time),
                                              hand_previous_values, h[1])
        /\ send_combined_data(sm_call'.ret, h[2], failAt, e)
        /\ UNCHANGED session
        /\ frame_call' = [program |-> "gui", face |-> x.face.ret, hand |-> x.hand,
                          session |-> session,
                          first |-> (frame_call.program = "none" \/ frame_call.session # session),
                          hand_before |-> hand_previous_values,
                          gated_run |-> GatedRun, last_emitted |-> LastEmitted,
                          gated_run_after |-> IF snd_call'.sent THEN 0
                                              ELSE IF GateClosed(now, last_send_time)
                                              THEN GatedRun + 1 ELSE GatedRun,
                          last_emitted_after |-> IF snd_call'.sent
                                                 THEN hand_previous_values'
                                                 ELSE LastEmitted,
                          smoothed_face |-> sm_call'.ret, smoothed_hand |-> h[2],
                          emitted |-> snd_call'.msgs,
                          gated |-> GateClosed(now, last_send_time),
                          failed |-> snd_call'.raised,
                          raised |-> IF snd_call'.escaped THEN e ELSE "none"]

\* _calculate_expressions: a face map without a "landmarks" entry gives no
\* expression
HasLandmarks(face_data) == "landmarks" \in DictKeys(face_data)

\* bool(value) of a float
Truthy(value) == value # Zero

\* _send_hand_data: for the first entry whose value is truthy,
\* _calculate_finger_curl evaluates len(landmarks) on a float, which raises
\* TypeError before anything is sent
HandDataRaises(hand_data) ==
    IF \E i \in 1..Len(hand_data) : Truthy(hand_data[i][2]) THEN "TypeError" ELSE "none"

\* _process_frame of cli_tracker.py.  The face map of FaceTracker has no
\* "landmarks" entry, so _send_face_data has no expression to smooth or send;
\* the entries of the hand map are floats, so _send_hand_data skips them or
\* raises
CliFrame(face_frame, hand_frame) ==
    \E x \in {Extracted(face_frame, hand_frame)} :
        /\ program = "cli"
        /\ ExtractorsRun(x, hand_frame)
        /\ ~HasLandmarks(x.face.ret)
        /\ frame_call' = [program |-> "cli", face |-> x.face.ret, hand |-> x.hand,
                          session |-> session, first |-> frame_call.program = "none",
                          smoothed_face |-> <<>>, smoothed_hand |-> <<>>,
                          emitted |-> <<>>,
                          gated |-> FALSE,
                          failed |-> FALSE,
                          raised |-> HandDataRaises(x.hand)]
        /\ UNCHANGED <<smVars, sndVars, hand_previous_values, session>>

NextFrames ==
    \/ Tick /\ UNCHANGED <<smVars, program, exVars, cfgVars, loopVars, cams, guiVars, cliVars>>
    \/ \E fr \in LoopFrames, f \in LoopFailures :
          GuiFrame(fr[1], fr[2], f[1], f[2]) /\ UNCHANGED <<program, cfgVars, cams, guiVars, cliVars>>
    \/ \E fr \in LoopFrames :
          CliFrame(fr[1], fr[2]) /\ UNCHANGED <<program, cfgVars, cams, guiVars, cliVars>>

\* toggle_tracking twice on a running WebcamTracker: stop_tracking, then
\* start_tracking with its connection test.  The tracker object, and with
\* it face_smoother and hand_smoother, is the one made in TrackerGUI.__init__;
\* neither method touches the smoothers
SessionSwitch(failAt, e) ==
    /\ program = "gui"
    /\ session < MaxSessions
    /\ session' = session + 1
    /\ test_connection(failAt, e)
    /\ UNCHANGED <<smVars, hand_previous_values, frame_call>>

NextSessions ==
    \/ Tick /\ UNCHANGED <<smVars, program, exVars, cfgVars, loopVars, cams, guiVars, cliVars>>
    \/ \E fr \in LoopFrames :
          GuiFrame(fr[1], fr[2], 0, "OSError") /\ UNCHANGED <<program, cfgVars, cams, guiVars, cliVars>>
    \/ \E f \in {0, 1} :
          SessionSwitch(f, "OSError") /\ UNCHANGED <<program, exVars, cfgVars, cams, guiVars, cliVars>>

-----------------------------------------------------------------------------
(* Specifications: one per component, the others at rest.                  *)

InitSmootherOnly == InitSmoother /\ InitSender /\ NoProgram /\ InitExtractors /\ InitLoop

SpecSmoother == InitSmootherOnly /\ [][NextSmoother]_vars

InitSenderOnly == InitSender /\ IdleSmoother /\ NoProgram /\ InitExtractors /\ InitLoop

SpecSender == InitSenderOnly /\ [][NextSender]_vars

SpecClock == InitSenderOnly /\ [][NextClock]_vars

SpecPipeline == InitSmootherOnly /\ [][NextPipeline]_vars

InitTrackers == InitSender /\ IdleSmoother /\ (InitGui \/ InitCli) /\ InitExtractors /\ InitLoop

InitExtractorsOnly == InitExtractors /\ InitSender /\ IdleSmoother /\ NoProgram /\ InitLoop

SpecExtractors == InitExtractorsOnly /\ [][NextExtractors]_vars

SpecHeadPose == InitExtractorsOnly /\ [][NextHeadPose]_vars

InitFrames ==
    /\ InitSender
    /\ InitSmoother /\ smoothing_factor = FaceSmoothing
    /\ (InitGui \/ InitCli)
    /\ InitExtractors
    /\ InitLoop

SpecFrames == InitFrames /\ [][NextFrames]_vars

InitSessions ==
    /\ InitSender
    /\ InitSmoother /\ smoothing_factor = FaceSmoothing
    /\ InitGui
    /\ InitExtractors
    /\ InitLoop

SpecSessions == InitSessions /\ [][NextSessions]_vars

SpecTrackers == InitTrackers /\ [][NextTrackers]_vars

InitGuiOnly == InitSender /\ IdleSmoother /\ InitGui /\ InitExtractors /\ InitLoop

SpecGui == InitGuiOnly /\ [][NextGui]_vars

\* the trackers with every started thread scheduled again and again, every
\* frame read returning and every join(timeout=2.0) returning, if only
\* because its timeout passed; what the user does and when is left open
SpecTrackersFair ==
    /\ InitTrackers
    /\ [][NextTrackers]_vars
    /\ \A w \in Threads : WF_vars(WorkerStep(w) /\ UNCHANGED <<smVars, sndVars, program, exVars, cfgVars, cliVars, loopVars>>)
    /\ \A w \in Threads : SF_vars(LoopJoin(w) /\ UNCHANGED <<smVars, sndVars, program, exVars, cfgVars, cliVars, loopVars>>)

-----------------------------------------------------------------------------
(* Claims about the VRChatOSCSender, checked under SpecSender.             *)

\* the number of messages in the whole batch of a rate-gated call
BatchSize(call) ==
    CASE call.method = "send_hand_tracking_data" -> Len(call.args[1])
      [] call.method = "send_combined_data" ->
            Cardinality(DictKeys(call.args[1]) \cup DictKeys(call.args[2]))
      [] OTHER -> 18

\* C1: of two consecutive calls to rate-gated send methods with a non-failing
\* transport, the first of which sent, the second sends nothing if it is made
\* less than send_interval after the first, and sends its batch if it is made
\* at least send_interval after it.
C1_RateGate ==
    (/\ snd_call.method \in GatedMethods
     /\ ~snd_call.raised
     /\ snd_call.prev.kind = "gated"
     /\ snd_call.prev.sent)
    => /\ snd_call.t - snd_call.prev.t < send_interval
            => ~snd_call.sent /\ snd_call.msgs = <<>>
       /\ snd_call.t - snd_call.prev.t >= send_interval
            => snd_call.sent /\ Len(snd_call.msgs) = BatchSize(snd_call)

C1_Witness ==
    /\ snd_call.method = "send_combined_data"
    /\ snd_call.prev.kind = "gated"
    /\ snd_call.prev.sent
    /\ snd_call.t - snd_call.prev.t = send_interval
    /\ snd_call.sent
    /\ Len(snd_call.msgs) = 2

\* C2 as stated: for every method that puts parameter messages on the wire,
\* send_custom_parameter included, a call made less than send_interval after
\* the sender's previous emission sends no message.
C2_EveryMethodGated ==
    (/\ snd_call.method \in GatedMethods \cup {"send_custom_parameter"}
     /\ snd_call.prev.kind \in {"gated", "custom"}
     /\ snd_call.prev.sent
     /\ snd_call.t - snd_call.prev.t < send_interval)
    => snd_call.msgs = <<>>

\* C2, amended: a call to one of the four rate-gated methods made less than
\* send_interval after the start of the previous rate-gated call that sent its
\* whole batch sends no message (send_custom_parameter is not gated).
C2_GatedMethodsGated ==
    (/\ snd_call.method \in GatedMethods
     /\ snd_call.prev_emit # NoTime
     /\ snd_call.t - snd_call.prev_emit < send_interval)
    => snd_call.msgs = <<>>

C2_Witness ==
    /\ snd_call.method = "send_body_tracking_data"
    /\ snd_call.prev.kind = "custom"
    /\ snd_call.prev_emit # NoTime
    /\ snd_call.t - snd_call.prev_emit = send_interval - 1
    /\ snd_call.msgs = <<>>

\* C11: whatever message of a call the transport raises OSError or
\* RuntimeError on, no send method of VRChatOSCSender raises: the call returns
\* normally, and test_connection returns False exactly when its send raised
\* and True otherwise.
C11_ErrorsContained ==
    snd_call.method # "init" =>
        /\ ~snd_call.escaped
        /\ snd_call.ret # "raises"
        /\ snd_call.method = "test_connection" =>
              /\ snd_call.ret = "False" <=> snd_call.raised
              /\ snd_call.ret = "True" <=> ~snd_call.raised
        /\ snd_call.method # "test_connection" => snd_call.ret = "None"

\* the transport raised RuntimeError on the second message of a body batch
C11_Witness ==
    /\ snd_call.method = "send_tracking_data"
    /\ snd_call.raised /\ snd_call.error = "RuntimeError"
    /\ Len(snd_call.msgs) = 1
    /\ snd_call.ret = "None"

\* C12: when the transport fails during a call to a rate-gated send method,
\* last_send_time keeps the value it had before the call.
C12_FailedSendKeepsGate ==
    (snd_call.method \in GatedMethods /\ snd_call.raised)
    => last_send_time = snd_call.last_before

\* send_tracking_data put nothing on the wire and moved last_send_time
C12_StampedAfterFailure ==
    /\ snd_call.method = "send_tracking_data"
    /\ snd_call.raised /\ snd_call.msgs = <<>>
    /\ snd_call.prev_emit = NoTime
    /\ last_send_time = snd_call.t
    /\ last_send_time # snd_call.last_before

\* the whole batch a rate-gated call builds from its own arguments
OwnBatch(call) ==
    CASE call.method = "send_hand_tracking_data" -> ParamBatch(call.args[1])
      [] call.method = "send_combined_data" ->
            ParamBatch(Merge(call.args[1], call.args[2], 1))
      [] call.method = "send_body_tracking_data" -> BodyBatch(call.args[1])
      [] call.method = "send_tracking_data" ->
            BodyBatch(IF Len(call.args[2]) = 0 THEN Synthesized(call.args[1])
                      ELSE call.args[2])

\* C13: a call to a rate-gated send method made less than send_interval after
\* the last emission sends no message and leaves last_send_time unchanged,
\* and what any rate-gated call sends is (a prefix of) the batch of its own
\* arguments: nothing a dropped call carried is sent later.
C13_DroppedNotBuffered ==
    snd_call.method \in GatedMethods =>
        /\ (snd_call.prev_emit # NoTime /\ snd_call.t - snd_call.prev_emit < send_interval)
              => (snd_call.msgs = <<>> /\ last_send_time = snd_call.last_before)
        /\ Len(snd_call.msgs) <= Len(OwnBatch(snd_call))
        /\ snd_call.msgs = SubSeq(OwnBatch(snd_call), 1, Len(snd_call.msgs))

\* a call was dropped by the gate, and a later one at the same clock reading
\* was dropped as well
C13_Witness ==
    /\ snd_call.method = "send_hand_tracking_data"
    /\ Len(snd_call.args[1]) = 2
    /\ snd_call.prev.kind = "gated" /\ ~snd_call.prev.sent
    /\ snd_call.prev_emit # NoTime
    /\ snd_call.t - snd_call.prev_emit = send_interval - 1
    /\ snd_call.msgs = <<>>
    /\ last_send_time = snd_call.prev_emit

\* the parameter names a parameter emission carries, and the value of each
\* (in send_combined_data the hand map's value where both maps have the name)
CallNames(call) ==
    IF call.method = "send_combined_data"
    THEN DictKeys(call.args[1]) \cup DictKeys(call.args[2])
    ELSE DictKeys(call.args[1])

CallValue(call, name) ==
    IF call.method = "send_combined_data" /\ name \in DictKeys(call.args[2])
    THEN DictGet(call.args[2], name)
    ELSE DictGet(call.args[1], name)

Attempts(call) == Len(call.msgs) + (IF call.raised THEN 1 ELSE 0)

\* C15: every send_custom_parameter(name, value) call issues exactly one
\* message, to "/avatar/parameters/" + name with the given value, however soon
\* after another emission, and leaves last_send_time unchanged.
C15_CustomParameter ==
    snd_call.method = "send_custom_parameter" =>
        /\ Attempts(snd_call) = 1
        /\ ~snd_call.raised =>
              snd_call.msgs = << <<<<"/avatar/parameters/", snd_call.args[1]>>, snd_call.args[2]>> >>
        /\ last_send_time = snd_call.last_before

\* send_custom_parameter("TestParam", 0.8) right after a rate-gated emission
C15_Witness ==
    /\ snd_call.method = "send_custom_parameter"
    /\ snd_call.prev.kind = "gated" /\ snd_call.prev.sent
    /\ snd_call.t = snd_call.prev.t
    /\ snd_call.msgs = << <<<<"/avatar/parameters/", "TestParam">>, Rat(8, 10)>> >>
    /\ last_send_time = snd_call.prev.t

\* the head pose triple of a face map: missing names count as 0
HeadTriple(face) ==
    << RSub(GetOrZero(face, "HeadTurnLeft"), GetOrZero(face, "HeadTurnRight")),
       RSub(GetOrZero(face, "HeadTiltUp"), GetOrZero(face, "HeadTiltDown")),
       RSub(GetOrZero(face, "HeadTiltLeft"), GetOrZero(face, "HeadTiltRight")) >>

\* C16: send_tracking_data(face_map, body) with no body data and a non-empty
\* face map, passing the gate with a non-failing transport, sends the head
\* pose triple as /tracking/trackers/head/position and position (0,0,0) for
\* every tracker slot 1..8.
C16_SynthesizedZeroFill ==
    (/\ snd_call.method = "send_tracking_data"
     /\ snd_call.sent
     /\ Len(snd_call.args[1]) > 0 /\ Len(snd_call.args[2]) = 0)
    => /\ Len(snd_call.msgs) = 18
       /\ snd_call.msgs[17] = << <<"/tracking/trackers/", "head", "position">>,
                                 HeadTriple(snd_call.args[1]) >>
       /\ \A i \in 1..8 :
             snd_call.msgs[2 * i - 1] = << <<"/tracking/trackers/", i, "position">>, ZeroTriple >>

\* the synthesized head triple went out as the position of tracker slot 1
C16_HeadInSlotOne ==
    /\ snd_call.method = "send_tracking_data"
    /\ snd_call.sent
    /\ Len(snd_call.args[2]) = 0
    /\ snd_call.args[1] = << <<"HeadTurnLeft", One>>, <<"HeadTiltDown", Half>> >>
    /\ snd_call.msgs[1] = << <<"/tracking/trackers/", 1, "position">>, <<One, Rat(-1, 2), Zero>> >>
    /\ snd_call.msgs[17] = << <<"/tracking/trackers/", "head", "position">>, <<One, Rat(-1, 2), Zero>> >>
    /\ \A i \in 2..8 : snd_call.msgs[2 * i - 1][2] = ZeroTriple

\* C17: a send_body_tracking_data call that passes the gate with a
\* non-failing transport sends exactly 18 messages: for i = 1..8 the position
\* then the rotation of tracker i, then the head position and rotation; slot
\* i carries the i-th landmark in insertion order, or zeros when there are
\* fewer than i; landmarks after the 8th are ignored; the head position is
\* the first landmark, or zeros; every rotation is [0, 0, 0, 1].
C17_BodyBatchShape ==
    (snd_call.method = "send_body_tracking_data" /\ snd_call.sent)
    => LET body == snd_call.args[1]
           msgs == snd_call.msgs
       IN  /\ Len(msgs) = 18
           /\ \A i \in 1..8 :
                 /\ msgs[2 * i - 1] =
                       << <<"/tracking/trackers/", i, "position">>,
                          IF i <= Len(body) THEN body[i][2] ELSE <<Zero, Zero, Zero>> >>
                 /\ msgs[2 * i] =
                       << <<"/tracking/trackers/", i, "rotation">>, <<Zero, Zero, Zero, One>> >>
           /\ msgs[17] =
                 << <<"/tracking/trackers/", "head", "position">>,
                    IF Len(body) > 0 THEN body[1][2] ELSE <<Zero, Zero, Zero>> >>
           /\ msgs[18] =
                 << <<"/tracking/trackers/", "head", "rotation">>, <<Zero, Zero, Zero, One>> >>

\* nine landmarks: the ninth goes nowhere
C17_Witness ==
    /\ snd_call.method = "send_body_tracking_data"
    /\ snd_call.sent
    /\ Len(snd_call.args[1]) = 9
    /\ Len(snd_call.msgs) = 18
    /\ snd_call.msgs[15][2] = snd_call.args[1][8][2]
    /\ \A i \in 1..18 : snd_call.msgs[i][2] # snd_call.args[1][9][2]

-----------------------------------------------------------------------------
(* Claims about the ParameterSmoother, checked under SpecSmoother.         *)

\* ret = alpha * prev + (1 - alpha) * value, cross-multiplied over the integers
IsBlend(ret, alpha, prev, value) ==
    ret[1] * (alpha[2] * prev[2] * value[2])
        = ret[2] * (alpha[1] * prev[1] * value[2]
                    + (alpha[2] - alpha[1]) * value[1] * prev[2])

\* the entries of the last call: <<key, raw value, returned value>>
CallEntries ==
    CASE sm_call.op = "smooth" ->
            {<<sm_call.key, sm_call.value, sm_call.ret>>}
      [] sm_call.op = "smooth_parameters" ->
            {<<sm_call.data[i][1], sm_call.data[i][2], DictGet(sm_call.ret, sm_call.data[i][1])>> :
                i \in 1..Len(sm_call.data)}
      [] OTHER -> {}

\* C3: for a key that already has a recorded value p, smooth(v, k) and the
\* entry k of smooth_parameters return smoothing_factor*p + (1-smoothing_factor)*v
\* and record it as the new previous value of k; with alpha = 0.8, p = 1.0 and
\* v = 0.0 the result is 0.8.
C3_Recurrence ==
    \A e \in CallEntries :
        e[1] \in DOMAIN sm_before =>
            /\ IsBlend(e[3], smoothing_factor, sm_before[e[1]], e[2])
            /\ previous_values[e[1]] = e[3]
            /\ (smoothing_factor = <<4, 5>> /\ sm_before[e[1]] = <<1, 1>> /\ e[2] = <<0, 1>>)
                    => e[3] = <<4, 5>>

C3_Witness ==
    /\ sm_call.op = "smooth"
    /\ smoothing_factor = <<4, 5>>
    /\ sm_call.key \in DOMAIN sm_before
    /\ sm_before[sm_call.key] = <<1, 1>>
    /\ sm_call.value = <<0, 1>>
    /\ sm_call.ret = <<4, 5>>

\* C4: for every smoothing factor and every key with no recorded value,
\* smooth(v, k) returns exactly v and records v for k; the first
\* smooth_parameters(map) on a fresh smoother returns a map equal to its input.
C4_FirstCall ==
    /\ \A e \in CallEntries :
          e[1] \notin DOMAIN sm_before => e[3] = e[2] /\ previous_values[e[1]] = e[2]
    /\ (sm_call.op = "smooth_parameters" /\ sm_before = NoValues) => sm_call.ret = sm_call.data

C4_Witness ==
    /\ sm_call.op = "smooth_parameters"
    /\ sm_before = NoValues
    /\ Len(sm_call.data) = 2
    /\ sm_call.ret = sm_call.data
    /\ sm_call.data[1][2] = Half

\* C5: with raw values in [0, 1], every returned value and every value stored
\* in previous_values lies in [0, 1], after any sequence of smooth,
\* smooth_parameters and reset calls.
C5_Bounded ==
    /\ \A k \in DOMAIN previous_values : InUnit(previous_values[k])
    /\ \A e \in CallEntries : InUnit(e[3])

C5_Witness ==
    /\ sm_call.op = "smooth_parameters"
    /\ \E e \in CallEntries :
          /\ e[1] \in DOMAIN sm_before
          /\ RLt(Zero, e[3]) /\ RLt(e[3], One)
          /\ e[3] # e[2]

\* C6: reset() empties the smoother state, and for every key seen before the
\* reset the next smooth(v, k) or smooth_parameters entry k returns v unchanged.
C6_Reset ==
    /\ sm_call.op = "reset" => previous_values = NoValues
    /\ \A e \in CallEntries : e[1] \in sm_call.pending => e[3] = e[2]

C6_Witness ==
    /\ sm_call.op = "smooth"
    /\ sm_call.key \in sm_call.pending
    /\ sm_call.ret = sm_call.value
    /\ sm_call.value = Zero

\* the names a call smooths
NamesOf(call) ==
    CASE call.op = "smooth" -> {call.key}
      [] call.op = "smooth_parameters" -> DictKeys(call.data)
      [] OTHER -> {}

\* C21: previous_values is empty at construction; every smooth and
\* smooth_parameters call leaves its key set equal to the key set before the
\* call together with the names the call smooths, so without a reset the key
\* set only grows and is exactly the set of names smoothed since construction
\* or the last reset, which empties it.
C21_KeysNeverEvicted ==
    /\ DOMAIN previous_values = {}
    /\ [][IF sm_call'.op = "reset"
          THEN DOMAIN previous_values' = {}
          ELSE /\ DOMAIN previous_values \subseteq DOMAIN previous_values'
               /\ DOMAIN previous_values' = DOMAIN previous_values \cup NamesOf(sm_call')]_vars

\* a third call without a reset, on a name already recorded, with both names
\* still recorded after it
C21_Witness ==
    /\ sm_calls = 3
    /\ sm_call.op = "smooth"
    /\ sm_call.key = "default"
    /\ DOMAIN sm_before = SmootherKeys
    /\ DOMAIN previous_values = SmootherKeys
    /\ sm_seen = {}


\* a map with its entries in the opposite order
Reversed(d) == [i \in 1..Len(d) |-> d[Len(d) + 1 - i]]

\* the entries of a map, whatever their order
Entries(d) == {d[i] : i \in 1..Len(d)}

\* C22: smooth_parameters(map) returns a map with exactly the names of its
\* input, whose entry for each name k is what smooth(map[k], k) returns from
\* the state before the call; it leaves the recorded value of every name not
\* in the map unchanged; with the entries in the opposite order it returns
\* the same map and ends in the same state.
C22_PerEntrySmooth ==
    sm_call.op = "smooth_parameters" =>
        /\ DictKeys(sm_call.ret) = DictKeys(sm_call.data)
        /\ Len(sm_call.ret) = Len(sm_call.data)
        /\ \A i \in 1..Len(sm_call.data) :
              LET k == sm_call.data[i][1]
                  s == SmoothedValue(smoothing_factor, sm_before, k, sm_call.data[i][2])
              IN  /\ DictGet(sm_call.ret, k) = s
                  /\ previous_values[k] = s
        /\ \A k \in DOMAIN sm_before \ DictKeys(sm_call.data) :
              /\ k \in DOMAIN previous_values
              /\ previous_values[k] = sm_before[k]
        /\ LET r == SmoothLoop(smoothing_factor, sm_before, Reversed(sm_call.data), 1, <<>>)
           IN  /\ r[1] = previous_values
               /\ Entries(r[2]) = Entries(sm_call.ret)

\* a map of two names with different recorded values, both blended
C22_Witness ==
    /\ sm_call.op = "smooth_parameters"
    /\ Len(sm_call.data) = 2
    /\ DOMAIN sm_before = SmootherKeys
    /\ sm_before["MouthOpen"] # sm_before["default"]
    /\ sm_call.data[1][2] # sm_call.data[2][2]
    /\ \A e \in CallEntries : e[3] # e[2]

-----------------------------------------------------------------------------
(* Claims about the frame pipeline, checked under SpecPipeline.            *)

MouthOpenMessage(v) == << <<<<"/avatar/parameters/", "MouthOpen">>, v>> >>

\* the first frame of a smoother with alpha = 0.8 carried MouthOpen = 1.0
FirstFrameOne ==
    /\ smoothing_factor = <<4, 5>>
    /\ sm_calls = 1
    /\ sm_call.data = << <<"MouthOpen", One>> >>

\* ... and the frame after it carried MouthOpen = 0.0
SecondFrameZero ==
    /\ smoothing_factor = <<4, 5>>
    /\ sm_calls = 2
    /\ sm_before = [k \in {"MouthOpen"} |-> One]
    /\ sm_call.data = << <<"MouthOpen", Zero>> >>

\* C18 as stated: with alpha = 0.8, MouthOpen = 1.0 on one frame and 0.0 on
\* the next, and a transport that does not fail, the pipeline sends
\* /avatar/parameters/MouthOpen 1.0 for the first frame and 0.8 for the second.
C18_BothFramesEmitted ==
    (snd_call.method = "send_combined_data" /\ ~snd_call.raised) =>
        /\ FirstFrameOne => snd_call.msgs = MouthOpenMessage(One)
        /\ SecondFrameZero => snd_call.msgs = MouthOpenMessage(<<4, 5>>)

\* C18, amended: the smoothed values of the two frames are 1.0 and 0.8; the
\* first is sent, and the second is sent if its emission is made at least
\* send_interval after the first one's and is dropped (no message) otherwise.
C18_SecondFrameGated ==
    (snd_call.method = "send_combined_data" /\ ~snd_call.raised) =>
        /\ FirstFrameOne =>
              /\ sm_call.ret = << <<"MouthOpen", One>> >>
              /\ snd_call.msgs = MouthOpenMessage(One)
        /\ (SecondFrameZero /\ snd_call.prev.sent) =>
              /\ sm_call.ret = << <<"MouthOpen", <<4, 5>>>> >>
              /\ snd_call.t - snd_call.prev.t >= send_interval
                    => snd_call.msgs = MouthOpenMessage(<<4, 5>>)
              /\ snd_call.t - snd_call.prev.t < send_interval
                    => snd_call.msgs = <<>>

\* the second frame came 1/60 s after the first: 0.8 went out
C18_Witness ==
    /\ SecondFrameZero
    /\ snd_call.prev.sent
    /\ snd_call.t - snd_call.prev.t = send_interval
    /\ snd_call.msgs = MouthOpenMessage(<<4, 5>>)

-----------------------------------------------------------------------------
(* Claims about the FaceTracker and the HandTracker, checked under         *)
(* SpecExtractors.                                                         *)

\* the twelve names of the face map
FaceKeys ==
    {"MouthOpen", "LeftEyeBlink", "RightEyeBlink", "LeftEyebrowRaise",
     "RightEyebrowRaise", "MouthSmile", "HeadTiltLeft", "HeadTiltRight",
     "HeadTiltUp", "HeadTiltDown", "HeadTurnLeft", "HeadTurnRight"}

\* the eight names of the hand map
HandKeys ==
    {"LeftArmRaise", "RightArmRaise", "LeftHandOpen", "RightHandOpen",
     "LeftHandFist", "RightHandFist", "LeftHandPoint", "RightHandPoint"}

\* the last call was detect_face_expression on a frame without a face
NoFaceCall ==
    /\ ex_call.op = "detect_face_expression"
    /\ Len(ex_call.frame.faces) = 0

\* C19: when no face is found in a frame, detect_face_expression returns
\* the twelve names of the face map, each with the value 0.0, whatever
\* frames were processed before.
C19_NoFaceDefaults ==
    NoFaceCall =>
        /\ Len(ex_call.ret) = Cardinality(FaceKeys)
        /\ DictKeys(ex_call.ret) = FaceKeys
        /\ \A i \in 1..Len(ex_call.ret) : ex_call.ret[i][2] = Zero

\* a frame without a face, after frames that left the smoothed mouth value
\* of the tracker above zero
C19_Witness ==
    /\ NoFaceCall
    /\ ex_frames >= 2
    /\ RLt(Zero, ex_call.mouth_before)
    /\ RLt(Zero, prev_mouth_open)
    /\ RLt(Zero, prev_eye_blink_left)

\* every value of a returned map lies in [0.0, 1.0]
AllInUnit(d) == \A i \in 1..Len(d) : InUnit(d[i][2])

\* C20: after any sequence of frames every value of the map returned by
\* detect_face_expression and by detect_hand_pose lies in [0.0, 1.0], and so
\* does the smoothed mouth value; the names of the map are always the full
\* set of the extractor, each once.
C20_Clamped ==
    /\ InUnit(prev_mouth_open)
    /\ ex_call.op = "detect_face_expression" =>
          /\ AllInUnit(ex_call.ret)
          /\ DictKeys(ex_call.ret) = FaceKeys
          /\ Len(ex_call.ret) = Cardinality(FaceKeys)
    /\ ex_call.op = "detect_hand_pose" =>
          /\ AllInUnit(ex_call.ret)
          /\ DictKeys(ex_call.ret) = HandKeys
          /\ Len(ex_call.ret) = Cardinality(HandKeys)

\* a face whose largest mouth contour exceeds the normalising area, seen
\* often enough for the smoothed mouth value to pass one half, with the
\* head turned and tilted as far as the map allows
C20_Witness ==
    /\ ex_call.op = "detect_face_expression"
    /\ Len(ex_call.frame.faces) > 0
    /\ LargestArea(ex_call.frame.contours, 1) > 100
    /\ RLt(Half, DictGet(ex_call.ret, "MouthOpen"))
    /\ DictGet(ex_call.ret, "HeadTurnLeft") = One
    /\ DictGet(ex_call.ret, "HeadTiltDown") = One

-----------------------------------------------------------------------------
(* Claims about the two trackers, checked under SpecTrackers.              *)

\* WebcamTracker is back in Idle: nothing is starting or stopping, the flag
\* is down and every _tracking_loop thread has ended
GuiIdle ==
    /\ program = "gui"
    /\ gpc.at = "idle"
    /\ ~is_running
    /\ \A w \in 1..Len(wpc) : ~Alive(w)

\* C7: once the GUI tracker is back in Idle, every camera that start_tracking
\* opened and ran a tracking loop on has been released (release() called) and
\* self.camera no longer refers to it, whatever ended the loop.
C7_ReleasedWhenIdle ==
    GuiIdle =>
        \A w \in 1..Len(wpc) :
            /\ cams[wcam[w]].releases >= 1
            /\ camera # wcam[w]

\* the loop ended by itself and its stop_tracking died in join: Idle, with
\* the camera still open
C7_LeakReached ==
    /\ GuiIdle
    /\ Len(wpc) = 1 /\ wpc[1] = "crashed"
    /\ camera = wcam[1]
    /\ cams[camera].open /\ cams[camera].releases = 0

\* the CLI run opened its camera: the capture opened and start_tracking did
\* not reject it
CliOpened == cap # 0 /\ cams[cap].acquired /\ cli_log.start # "failed"

\* C8: when main() of the CLI tracker has returned and start_tracking had
\* opened the camera, cap.release() has been called exactly once, whatever
\* ended the run (ESC, camera closed, exception, interrupt signal).
C8_ReleasedOnceAtExit ==
    (program = "cli" /\ cpc = "exited" /\ CliOpened) => cams[cap].releases = 1

\* an interrupt ended the run and the camera it had opened was never released
C8_LeakReached ==
    /\ program = "cli" /\ cpc = "exited" /\ CliOpened
    /\ signals >= 1 /\ exc = "SystemExit"
    /\ cams[cap].open /\ cams[cap].releases = 0

\* C9: in both trackers the running flag is True only while a camera that
\* opened successfully is held for the session, a tracking loop (thread) is
\* only ever started on such a camera, and a failed acquisition leaves the
\* flag False and is reported (start_tracking returns False / error message).
C9_RunningOnlyAfterAcquisition ==
    /\ program = "gui" =>
          /\ is_running => (gcam # 0 /\ cams[gcam].acquired)
          /\ \A w \in 1..Len(wpc) : cams[wcam[w]].acquired
          /\ Len(wpc) <= Cardinality({i \in 1..Len(cams) : cams[i].acquired})
          /\ (gpc.at = "idle" /\ gcam # 0 /\ ~cams[gcam].acquired) =>
                (start_ret = "False" /\ ~is_running /\ ~is_tracking)
    /\ program = "cli" =>
          /\ running => (cap # 0 /\ cams[cap].acquired /\ cli_log.start = "ok")
          /\ cli_log.loop_entered => (cap # 0 /\ cams[cap].acquired)
          /\ cli_log.start = "failed" =>
                (cli_log.reported /\ ~running /\ ~cli_log.loop_entered)
          /\ (cap # 0 /\ ~cams[cap].acquired /\ cpc # "isopen") =>
                (~running /\ ~cli_log.loop_entered)

\* a GUI session ran, was stopped, and the next start failed to open the
\* camera: reported, no second thread, flag down
C9_Witness ==
    /\ program = "gui" /\ gpc.at = "idle"
    /\ Len(cams) = 2 /\ cams[1].acquired /\ ~cams[2].acquired
    /\ gcam = 2 /\ start_ret = "False"
    /\ Len(wpc) = 1 /\ ~is_running /\ ~is_tracking

\* C10: in both tracking loops a failed frame read is not fatal: the loop's
\* next step after the failed read is the head of the loop again, with the
\* running flag unchanged.
C10_FailedReadRetried ==
    [][/\ (program = "cli" /\ cpc = "read_failed" /\ signals' = signals /\ cpc' # cpc) =>
            (cpc' = "while" /\ running' = running)
       /\ \A w \in 1..Len(wpc) :
            (program = "gui" /\ wpc[w] = "read_failed" /\ wpc'[w] # wpc[w]) =>
               (wpc'[w] = "while" /\ is_running' = is_running)]_vars

\* a failed read ended the GUI loop while the tracker was running
C10_FatalReached ==
    /\ program = "gui"
    /\ \E w \in 1..Len(wpc) : wpc[w] = "stop" /\ is_running /\ tracking_thread = w
    /\ camera # 0 /\ cams[camera].open

\* the _tracking_loop thread w has ended
Ended(w) == w \in 1..Len(wpc) /\ ~Alive(w)

\* the GUI thread is in a stop_tracking call made while thread w was the
\* running worker
StopRequested(w) ==
    /\ program = "gui"
    /\ gpc.at = "join"
    /\ tracking_thread = w
    /\ w \in 1..Len(wpc)
    /\ Alive(w)

\* C23: after the GUI thread calls stop_tracking() while a worker runs, the
\* worker, scheduled fairly and with every frame read returning, eventually
\* ends (or the process does).
C23_StoppedWorkerEnds ==
    \A w \in Threads : StopRequested(w) ~> (Ended(w) \/ gpc.at = "closed")

\* the worker of the first session, stopped while it was inside a frame read,
\* has begun another iteration under the flag the second session raised
C23_StaleWorkerIterates ==
    /\ program = "gui"
    /\ Len(wpc) = 2
    /\ tracking_thread = 2
    /\ is_running
    /\ wpc[1] = "camcheck"
    /\ cams[wcam[1]].releases = 1

\* the _tracking_loop thread w is inside an iteration of its loop
Iterating(w) == wpc[w] \in {"camcheck", "read", "read_failed", "process"}

\* C24: at most one _tracking_loop thread is inside an iteration at any time,
\* whatever the sequence of starts and stops; a thread only clears the flag of
\* the session that started it, and only releases the camera that session
\* acquired.
C24_SingleLoopThread ==
    /\ [](program = "gui" => Cardinality({w \in 1..Len(wpc) : Iterating(w)}) <= 1)
    /\ [][\A w \in 1..Len(wpc) :
            /\ (wpc[w] = "stop" /\ wpc'[w] = "join" /\ is_running) => tracking_thread = w
            /\ (wpc[w] = "release" /\ wpc'[w] = "setnone") => camera = wcam[w]]_vars

\* the thread of the first session and the thread of the second are both
\* processing a frame
C24_TwoLoopThreads ==
    /\ program = "gui"
    /\ Len(wpc) = 2
    /\ wpc[1] = "process"
    /\ wpc[2] = "process"
    /\ camera = wcam[2]

-----------------------------------------------------------------------------
(* Claims about the settings handlers of TrackerGUI, checked under SpecGui. *)

\* the last settings handler found a port field that is not a number
PortRejected == gui_call.handler # "init" /\ ~gui_call.numeric

\* C25: when toggle_tracking or test_connection finds a port field that is
\* not a number, the error is reported, config.VRCHAT_OSC_IP and
\* config.VRCHAT_OSC_PORT keep the values they had, no VRChatOSCSender is
\* created and tracking is not started.
C25_RejectedNothingApplied ==
    PortRejected =>
        /\ gui_call.reported = "port_error"
        /\ VRCHAT_OSC_IP = gui_call.ip_before
        /\ VRCHAT_OSC_PORT = gui_call.port_before
        /\ ~gui_call.created
        /\ gui_call.handler = "toggle_tracking" =>
              (~is_tracking /\ gpc.at \in {"idle", "closed"})

\* toggle_tracking reported the port and returned without starting, and
\* config.VRCHAT_OSC_IP is no longer what it was
C25_IpOverwritten ==
    /\ PortRejected
    /\ gui_call.handler = "toggle_tracking"
    /\ gui_call.reported = "port_error"
    /\ VRCHAT_OSC_PORT = gui_call.port_before
    /\ VRCHAT_OSC_IP # gui_call.ip_before
    /\ ~is_tracking


-----------------------------------------------------------------------------
(* Claims about the sender under a clock that moves either way, checked    *)
(* under SpecClock.                                                        *)

\* the last call was send_tracking_data and passed the gate of that method
TrackingPassed ==
    /\ snd_call.method = "send_tracking_data"
    /\ ~GateClosed(snd_call.t, snd_call.last_before)

\* C35: whenever send_tracking_data passes its own rate gate and the clock
\* has not gone backwards by the second reading, the gate of the inner
\* send_body_tracking_data passes too, and the call sends its full batch of
\* 18 messages (all of it unless the transport raises part-way)
C35_NestedGatePasses ==
    (TrackingPassed /\ snd_call.t2 >= snd_call.t) =>
        /\ ~GateClosed(snd_call.t2, snd_call.last_before)
        /\ ~snd_call.raised => (snd_call.sent /\ Len(snd_call.msgs) = 18)
        /\ snd_call.raised => Len(snd_call.msgs) < 18

\* send_tracking_data is called exactly send_interval after the last send,
\* the clock moves on before the inner reading, and 18 messages go out
C35_Witness ==
    /\ TrackingPassed
    /\ snd_call.t - snd_call.last_before = send_interval
    /\ snd_call.last_before > 0
    /\ snd_call.t2 > snd_call.t
    /\ snd_call.sent /\ Len(snd_call.msgs) = 18

\* the clock went backwards between the two readings: the call passed its
\* own gate, the inner call did not, and nothing was sent
C35_BackwardInnerGated ==
    /\ TrackingPassed
    /\ snd_call.t2 < snd_call.t
    /\ ~snd_call.raised /\ snd_call.msgs = <<>>

C36_InnerStampOverwritten ==
    /\ snd_call.method = "send_tracking_data"
    /\ snd_call.sent
    /\ snd_call.mid = snd_call.t2
    /\ last_send_time = snd_call.t
    /\ snd_call.mid > last_send_time

-----------------------------------------------------------------------------
(* Claims about one iteration of the tracking loop, checked under          *)
(* SpecFrames.                                                             *)

\* a frame has been processed, the rate gate was open and the transport
\* worked
Emitting == frame_call.program # "none" /\ ~frame_call.gated /\ ~frame_call.failed

\* the messages of one value per entry of the map
WireOf(data) == {<<ParamAddress(data[i][1]), data[i][2]>> : i \in 1..Len(data)}

\* the loop of the program `p` puts on the wire exactly one smoothed value
\* for every key of both extractor outputs
EmitsEveryKey(p) ==
    (Emitting /\ frame_call.program = p) =>
        /\ Len(frame_call.face) = 12 /\ Len(frame_call.hand) = 8
        /\ frame_call.raised = "none"
        /\ DictKeys(frame_call.smoothed_face) = DictKeys(frame_call.face)
        /\ DictKeys(frame_call.smoothed_hand) = DictKeys(frame_call.hand)
        /\ Len(frame_call.emitted) = Len(frame_call.face) + Len(frame_call.hand)
        /\ {frame_call.emitted[i] : i \in 1..Len(frame_call.emitted)}
              = WireOf(frame_call.smoothed_face) \cup WireOf(frame_call.smoothed_hand)

\* C26: in every iteration that processes a frame and is not rate-gated,
\* both extractors run and the wire carries exactly one smoothed value for
\* every key of the face map and every key of the hand map, in the loop of
\* main.py and in _process_frame of cli_tracker.py alike
C26_PipelineComplete == EmitsEveryKey("gui") /\ EmitsEveryKey("cli")

\* the part of C26 about WebcamTracker._tracking_loop
C26_GuiPipelineComplete == EmitsEveryKey("gui")

\* _process_frame has handled a frame with an open mouth and still arms,
\* and nothing is on the wire
C26_CliEmitsNothing ==
    /\ frame_call.program = "cli"
    /\ frame_call.raised = "none"
    /\ DictGet(frame_call.face, "MouthOpen") # Zero
    /\ frame_call.emitted = <<>>

\* _process_frame has raised TypeError on the hand map of a frame with a
\* moving arm
C26_CliRaises ==
    /\ frame_call.program = "cli"
    /\ frame_call.raised = "TypeError"
    /\ DictGet(frame_call.hand, "RightArmRaise") # Zero


\* C32: for every output of the extractors, a hand map with non-zero values
\* included, _process_frame of cli_tracker.py returns without raising
C32_ProcessFrameReturns ==
    frame_call.program = "cli" => frame_call.raised = "none"

\* _process_frame was handed a frame with movement in both halves: the hand
\* map has non-zero entries, TypeError is raised and nothing was sent
C32_HandMapRaises ==
    /\ frame_call.program = "cli"
    /\ DictGet(frame_call.hand, "LeftHandOpen") = Half
    /\ DictGet(frame_call.hand, "LeftArmRaise") # Zero
    /\ frame_call.raised = "TypeError"
    /\ frame_call.emitted = <<>>

\* every entry of `data` has moved the smoother from `before` to `after` by
\* one step of the moving average
AdvancedBy(alpha, before, after, data) ==
    \A i \in 1..Len(data) :
        /\ data[i][1] \in DOMAIN after
        /\ after[data[i][1]] = SmoothedValue(alpha, before, data[i][1], data[i][2])

\* every message carries the value the smoothers hold for its parameter
CarriesState(msgs, face_state, hand_state) ==
    \A i \in 1..Len(msgs) :
        LET k == msgs[i][1][2]
        IN  IF k \in HandKeys
            THEN k \in DOMAIN hand_state /\ msgs[i][2] = hand_state[k]
            ELSE k \in DOMAIN face_state /\ msgs[i][2] = face_state[k]

\* C33: in WebcamTracker._tracking_loop every processed frame advances both
\* smoothers by one step, the frames dropped by the rate gate included, and
\* what an emitting frame puts on the wire is the state the smoothers have
\* reached over all frames seen
C33_SmoothingEveryFrame ==
    [][(program = "gui" /\ ex_frames' = ex_frames + 1) =>
          /\ AdvancedBy(FaceSmoothing, previous_values, previous_values', frame_call'.face)
          /\ AdvancedBy(HandSmoothing, hand_previous_values, hand_previous_values',
                        frame_call'.hand)
          /\ (~frame_call'.gated /\ ~frame_call'.failed) =>
                /\ Len(frame_call'.emitted) = 20
                /\ CarriesState(frame_call'.emitted, previous_values',
                                hand_previous_values')]_vars

\* a frame is emitted after an earlier emission and at least one frame that
\* the gate dropped, and its RightArmRaise value is what the hand smoother
\* holds, which is not one step on from the value last emitted
C33_Witness ==
    /\ frame_call.program = "gui"
    /\ ~frame_call.gated /\ ~frame_call.failed
    /\ frame_call.gated_run >= 1
    /\ "RightArmRaise" \in DOMAIN frame_call.last_emitted
    /\ DictGet(frame_call.smoothed_hand, "RightArmRaise") = hand_previous_values["RightArmRaise"]
    /\ hand_previous_values["RightArmRaise"]
          # SmoothedValue(HandSmoothing, frame_call.last_emitted, "RightArmRaise",
                          DictGet(frame_call.hand, "RightArmRaise"))

-----------------------------------------------------------------------------
(* Claims about tracking sessions of one WebcamTracker, checked under      *)
(* SpecSessions.                                                           *)

\* the frame just processed is the first of its session
FirstOfSession == frame_call.program = "gui" /\ frame_call.first

\* C34: the smoothers are reset when a WebcamTracker is stopped and started
\* again, so the first smoothed value of every parameter in the new session
\* is its raw value of that frame
C34_FreshSession ==
    FirstOfSession =>
        /\ frame_call.smoothed_face = frame_call.face
        /\ frame_call.smoothed_hand = frame_call.hand

\* the first frame of the second session has still arms, and the
\* RightArmRaise it smooths to is 0.6 times the value the first session
\* left in the hand smoother
C34_StaleValueBleeds ==
    /\ FirstOfSession
    /\ frame_call.session = 2
    /\ DictGet(frame_call.hand, "RightArmRaise") = Zero
    /\ "RightArmRaise" \in DOMAIN frame_call.hand_before
    /\ RLt(Zero, frame_call.hand_before["RightArmRaise"])
    /\ DictGet(frame_call.smoothed_hand, "RightArmRaise")
          = RMul(HandSmoothing, frame_call.hand_before["RightArmRaise"])

-----------------------------------------------------------------------------
(* Claims about the heuristics of the extractors, checked under            *)
(* SpecExtractors.                                                         *)

\* 0.7 * previous + 0.3 * raw
Blend73(previous, raw) == RAdd(RMul(Rat(7, 10), previous), RMul(Rat(3, 10), raw))

\* C27: for each side, detect_hand_pose returns 0.7 * (the value persisted
\* for that side by the call before, 0.0 at first) + 0.3 * min(1, 10 *
\* density), and the persisted value of the side is updated by every call
\* to the value returned
C27_ArmBlendPersisted ==
    ex_call.op = "detect_hand_pose" =>
        /\ DictGet(ex_call.ret, "LeftArmRaise")
              = Blend73(ex_call.left_before, ArmRaise(ex_call.frame.left))
        /\ DictGet(ex_call.ret, "RightArmRaise")
              = Blend73(ex_call.right_before, ArmRaise(ex_call.frame.right))
        /\ prev_left_arm = DictGet(ex_call.ret, "LeftArmRaise")
        /\ prev_right_arm = DictGet(ex_call.ret, "RightArmRaise")

\* the part of C27 that the code keeps: the value returned is the blend of
\* the field as it stood at the call
C27_BlendOfField ==
    ex_call.op = "detect_hand_pose" =>
        /\ DictGet(ex_call.ret, "LeftArmRaise")
              = Blend73(ex_call.left_before, ArmRaise(ex_call.frame.left))
        /\ DictGet(ex_call.ret, "RightArmRaise")
              = Blend73(ex_call.right_before, ArmRaise(ex_call.frame.right))

\* the third call on frames sees a fully moving left half, returns 0.3 for
\* the left arm and leaves the persisted value at 0.0
C27_ArmNeverPersisted ==
    /\ ex_frames = MaxFrames
    /\ ex_call.op = "detect_hand_pose"
    /\ ex_call.frame.left = One
    /\ DictGet(ex_call.ret, "LeftArmRaise") = Rat(3, 10)
    /\ prev_left_arm = Zero


\* a face was detected in the frame of the last call
FaceSeen == ex_call.op = "detect_face_expression" /\ Len(ex_call.frame.faces) > 0

\* raw = min(1, largest contour area / 100), 0 without a contour
RawMouth(contours) ==
    IF Len(contours) > 0 THEN MouthRatio(LargestArea(contours, 1)) ELSE Zero

\* C28: on every frame with a detected face, MouthOpen is 0.7 *
\* prev_mouth_open + 0.3 * raw, with raw = 0 when the mouth region has no
\* contour, and prev_mouth_open is then set to the value returned
C28_MouthBlend ==
    FaceSeen =>
        /\ DictGet(ex_call.ret, "MouthOpen")
              = Blend73(ex_call.mouth_before, RawMouth(ex_call.frame.contours))
        /\ prev_mouth_open = DictGet(ex_call.ret, "MouthOpen")

\* the part of C28 that the code keeps: the frames whose mouth region has a
\* contour
C28_BlendWithContour ==
    (FaceSeen /\ Len(ex_call.frame.contours) > 0) =>
        /\ DictGet(ex_call.ret, "MouthOpen")
              = Blend73(ex_call.mouth_before, RawMouth(ex_call.frame.contours))
        /\ prev_mouth_open = DictGet(ex_call.ret, "MouthOpen")

\* a face without a contour after an open mouth: MouthOpen drops to 0.0 at
\* once and prev_mouth_open keeps the older value
C28_NoContourSkipsBlend ==
    /\ FaceSeen
    /\ Len(ex_call.frame.contours) = 0
    /\ RLt(Zero, ex_call.mouth_before)
    /\ DictGet(ex_call.ret, "MouthOpen") = Zero
    /\ prev_mouth_open = ex_call.mouth_before


\* raw = 0.8 if no eye is detected in the face region, 0.0 otherwise
RawBlink(eyes) == IF eyes = 0 THEN Rat(8, 10) ELSE Zero

\* C29: in every map returned by detect_face_expression LeftEyeBlink equals
\* RightEyeBlink, and on a frame with a face that value is 0.8 * the
\* previous blink value + 0.2 * raw, with raw = 0.8 if no eye is detected
\* and 0.0 otherwise
C29_BlinkBothEyes ==
    ex_call.op = "detect_face_expression" =>
        /\ DictGet(ex_call.ret, "LeftEyeBlink") = DictGet(ex_call.ret, "RightEyeBlink")
        /\ Len(ex_call.frame.faces) > 0 =>
              DictGet(ex_call.ret, "LeftEyeBlink")
                = RAdd(RMul(Rat(8, 10), ex_call.eye_before),
                       RMul(Rat(2, 10), RawBlink(ex_call.frame.eyes)))

\* a face with closed eyes after frames that left the blink value above
\* zero: both eyes carry the same blended value, which is neither the
\* previous value nor the raw one
C29_Witness ==
    /\ FaceSeen
    /\ ex_frames >= 2
    /\ ex_call.frame.eyes = 0
    /\ RLt(Zero, ex_call.eye_before)
    /\ DictGet(ex_call.ret, "RightEyeBlink") # ex_call.eye_before
    /\ DictGet(ex_call.ret, "RightEyeBlink") # RawBlink(0)
    /\ DictGet(ex_call.ret, "LeftEyeBlink") = DictGet(ex_call.ret, "RightEyeBlink")


-----------------------------------------------------------------------------
(* Claims about _detect_head_pose, checked under SpecHeadPose.             *)

HeadPoseCalled == ex_call.op = "_detect_head_pose"

\* one axis of the policy: with the offset `off`, the parameter `positive`
\* is min(1, 2 * |off|) if off > 0.1 and 0.0 otherwise, the parameter
\* `negative` is min(1, 2 * |off|) if off < -0.1 and 0.0 otherwise
AxisPolicy(pose, off, positive, negative) ==
    LET size == RMin(One, RMul(Rat(2, 1), RAbs(off)))
        far == RLt(Rat(1, 10), RAbs(off))
    IN  /\ RLe(Rat(-1, 1), off) /\ RLe(off, One)
        /\ (DictGet(pose, positive) # Zero \/ DictGet(pose, negative) # Zero) => far
        /\ DictGet(pose, positive) = Zero \/ DictGet(pose, negative) = Zero
        /\ DictGet(pose, positive) = IF far /\ RLt(Zero, off) THEN size ELSE Zero
        /\ DictGet(pose, negative) = IF far /\ RLt(off, Zero) THEN size ELSE Zero

\* C30: for every face rectangle inside the image, the offsets of the face
\* centre lie in [-1, 1]; HeadTurnLeft or HeadTurnRight is non-zero only if
\* the horizontal offset is beyond 0.1 in size and is then min(1, 2 *
\* |offset|), never both at once; HeadTiltDown and HeadTiltUp follow the
\* same rule on the vertical offset; all four are 0.0 within the threshold
C30_HeadPosePolicy ==
    HeadPoseCalled =>
        /\ AxisPolicy(ex_call.ret,
                      CenterOffset(ex_call.face_rect[1], ex_call.face_rect[3], ImageWidth),
                      "HeadTurnLeft", "HeadTurnRight")
        /\ AxisPolicy(ex_call.ret,
                      CenterOffset(ex_call.face_rect[2], ex_call.face_rect[4], ImageHeight),
                      "HeadTiltDown", "HeadTiltUp")

\* a face whose centre is exactly 0.1 to the right of the middle, where no
\* turn is reported, and far enough above it for a tilt below 1.0
C30_Witness ==
    /\ HeadPoseCalled
    /\ CenterOffset(ex_call.face_rect[1], ex_call.face_rect[3], ImageWidth) = Rat(1, 10)
    /\ DictGet(ex_call.ret, "HeadTurnLeft") = Zero
    /\ DictGet(ex_call.ret, "HeadTurnRight") = Zero
    /\ RLt(Zero, DictGet(ex_call.ret, "HeadTiltUp"))
    /\ RLt(DictGet(ex_call.ret, "HeadTiltUp"), One)


\* face_aspect_ratio = w / h if h > 0 else 1.0
AspectOf(face_rect) == IF face_rect[4] > 0 THEN Rat(face_rect[3], face_rect[4]) ELSE One

\* min(1, (w/h - 1) * 2)
RollOf(face_rect) == RMin(One, RMul(RSub(AspectOf(face_rect), One), Rat(2, 1)))

\* C31: HeadTiltLeft and HeadTiltRight are both 0.0 unless the aspect ratio
\* w/h of the face box exceeds 1.2; when it does, exactly one of them is
\* min(1, (w/h - 1) * 2), HeadTiltRight for a positive horizontal offset and
\* HeadTiltLeft for a negative one; a face of height 0 counts as aspect 1.0
C31_HeadRollPolicy ==
    HeadPoseCalled =>
        LET off == CenterOffset(ex_call.face_rect[1], ex_call.face_rect[3], ImageWidth)
            left == DictGet(ex_call.ret, "HeadTiltLeft")
            right == DictGet(ex_call.ret, "HeadTiltRight")
        IN  /\ ex_call.face_rect[4] = 0 => (left = Zero /\ right = Zero)
            /\ IF RLt(Rat(12, 10), AspectOf(ex_call.face_rect))
               THEN /\ (left = Zero) # (right = Zero)
                    /\ RLt(Zero, off) => right = RollOf(ex_call.face_rect)
                    /\ RLt(off, Zero) => left = RollOf(ex_call.face_rect)
               ELSE left = Zero /\ right = Zero

\* a face 1.4 times as wide as high, left of the middle: HeadTiltLeft is
\* 0.8 and HeadTiltRight is 0.0
C31_Witness ==
    /\ HeadPoseCalled
    /\ AspectOf(ex_call.face_rect) = Rat(14, 10)
    /\ RLt(CenterOffset(ex_call.face_rect[1], ex_call.face_rect[3], ImageWidth), Zero)
    /\ DictGet(ex_call.ret, "HeadTiltLeft") = Rat(8, 10)
    /\ DictGet(ex_call.ret, "HeadTiltRight") = Zero


\* ---------------------------------------------------------------------
\* Claims about empty batches, checked under SpecSender
\* ---------------------------------------------------------------------

ParamMethods == {"send_hand_tracking_data", "send_combined_data"}

\* the last call was send_hand_tracking_data or send_combined_data with
\* empty maps, and it found the gate open
EmptyPassed ==
    /\ snd_call.method \in ParamMethods
    /\ \A i \in 1..Len(snd_call.args) : snd_call.args[i] = <<>>
    /\ ~GateClosed(snd_call.t, snd_call.last_before)

\* C37: a call of send_combined_data or send_hand_tracking_data with empty
\* maps that passes the gate sends no message and sets last_send_time to
\* its clock reading, and the next rate-gated call, when it comes less than
\* send_interval later, sends nothing whatever its data
C37_EmptyBatchConsumesGate ==
    [][/\ EmptyPassed' =>
             snd_call'.msgs = <<>> /\ last_send_time' = snd_call'.t
       /\ (/\ EmptyPassed
           /\ snd_call' # snd_call
           /\ snd_call'.method \in GatedMethods
           /\ snd_call'.t - snd_call.t < send_interval) =>
             /\ snd_call'.msgs = <<>>
             /\ ~snd_call'.sent
             /\ last_send_time' = last_send_time]_vars

C37_Witness ==
    /\ snd_call.method = "send_combined_data"
    /\ snd_call.args[1] # <<>>
    /\ snd_call.prev.kind = "gated"
    /\ snd_call.prev.sent
    /\ snd_call.prev.empty_maps
    /\ snd_call.prev_emit = snd_call.prev.t
    /\ snd_call.last_before = snd_call.prev.t
    /\ snd_call.t = snd_call.prev.t + 1
    /\ snd_call.msgs = <<>>
    /\ ~snd_call.sent
    /\ snd_call.prev.t >= send_interval


\* ---------------------------------------------------------------------
\* Claims about frames without a face, checked under SpecExtractors
\* ---------------------------------------------------------------------

\* the step is a detect_face_expression call
FaceStep == ex_frames' = ex_frames + 1 /\ ex_call'.op = "detect_face_expression"

\* C38: a detect_face_expression call that finds no face leaves
\* prev_mouth_open and prev_eye_blink_left as they were; a call that finds
\* a face blends the blink, and the mouth when the mouth region has a
\* contour, against the fields as the previous call left them, so after a
\* gap against the values from before the gap; and no step changes
\* prev_eye_blink_right
C38_NoFaceKeepsState ==
    [][/\ prev_eye_blink_right' = prev_eye_blink_right
       /\ (FaceStep /\ Len(ex_call'.frame.faces) = 0) =>
             /\ prev_mouth_open' = prev_mouth_open
             /\ prev_eye_blink_left' = prev_eye_blink_left
       /\ (FaceStep /\ Len(ex_call'.frame.faces) > 0) =>
             /\ DictGet(ex_call'.ret, "LeftEyeBlink")
                   = RAdd(RMul(Rat(8, 10), prev_eye_blink_left),
                          RMul(Rat(2, 10), RawBlink(ex_call'.frame.eyes)))
             /\ Len(ex_call'.frame.contours) > 0 =>
                   DictGet(ex_call'.ret, "MouthOpen")
                     = Blend73(prev_mouth_open, RawMouth(ex_call'.frame.contours))]_vars

\* a face reappears after a frame without one, and the values it is
\* blended against are those persisted before the gap
C38_Witness ==
    /\ FaceSeen
    /\ ex_call.after_gap
    /\ RLt(Zero, ex_call.mouth_before)
    /\ RLt(Zero, ex_call.eye_before)
    /\ ex_call.frame.eyes = 2
    /\ DictGet(ex_call.ret, "LeftEyeBlink") = RMul(Rat(8, 10), ex_call.eye_before)
    /\ Len(ex_call.frame.contours) > 0
    /\ DictGet(ex_call.ret, "MouthOpen")
         = Blend73(ex_call.mouth_before, RawMouth(ex_call.frame.contours))


\* ---------------------------------------------------------------------
\* Claims about the GUI's view of the lifecycle, checked under SpecTrackers
\* ---------------------------------------------------------------------

\* the WebcamTracker is Running: is_running with a live worker thread
TrackerRunning ==
    /\ is_running
    /\ tracking_thread # 0
    /\ Alive(tracking_thread)

\* C39: whenever the GUI thread is outside toggle_tracking, is_tracking is
\* True if and only if the tracker is Running
C39_GuiMatchesTracker ==
    (program = "gui" /\ gpc.at = "idle") => (is_tracking <=> TrackerRunning)

\* the worker loop ended on its own and the GUI still shows tracking
C39_StaleIsTracking ==
    /\ program = "gui"
    /\ gpc.at = "idle"
    /\ is_tracking
    /\ ~is_running
    /\ tracking_thread # 0
    /\ wpc[tracking_thread] = "crashed"
    /\ camera # 0

=============================================================================
